---- MODULE Spec2Model ----
(***************************************************************************)
(* A model of the acquisition, caching and synchronization engine of      *)
(* skills-hub (src-tauri/src/core): the git cache (clone_to_cache), the   *)
(* canonical store writer (install_*, update_managed_skill_from_source)   *)
(* and the registry (skill_store).                                        *)
(*                                                                         *)
(* Two specifications share the variables:                                 *)
(*   SpecCache  concurrent callers of clone_to_cache, one step per        *)
(*              filesystem / fetch operation, with the copy-out that the  *)
(*              callers perform after clone_to_cache has returned;        *)
(*   Spec       the canonical store: installs (whole handlers) and one    *)
(*              update at a time, one step per filesystem operation of    *)
(*              the swap.                                                  *)
(***************************************************************************)
EXTENDS Integers, Sequences, FiniteSets, TLC

VARIABLES
    now,            \* now_ms(): the wall clock, in milliseconds
    ttl_secs,       \* get_git_cache_ttl_secs(store): the configured TTL
    cache,          \* the git cache: cache key -> state of <cache_root>/<key>
    git_cache_lock, \* GIT_CACHE_LOCK: the holder of the guard, or NoProc
    acq,            \* per caller: its position in clone_to_cache and after it
    markerBy,       \* per cache key: the fetches of the call its marker is from
    central,        \* the canonical root: skill name -> directory tree
    skills,         \* the registry's skills table: id -> SkillRecord
    targets,        \* the skill_targets table: id -> tool -> row
    tdirs,          \* the tools' skill directories: id -> tool -> directory
    op,             \* the install or update in progress, or just returned
    nops,           \* the number of commands started so far
    fn              \* the last call of a pure function: arguments and result

cacheVars == <<ttl_secs, cache, git_cache_lock, acq, markerBy>>

tgtVars == <<targets, tdirs>>

storeVars == <<central, skills, targets, tdirs, op, nops, fn>>

vars == <<now, ttl_secs, cache, git_cache_lock, acq, markerBy,
          central, skills, targets, tdirs, op, nops, fn>>

----------------------------------------------------------------------------
(* Bounds *)

\* the clock runs from 0 to MaxNowSecs seconds, one second per tick
MaxNowSecs == 1

\* the store runs at most MaxOps commands (installs, updates, target syncs)
MaxOps == 3

Procs == {"p1", "p2"}
NoProc == "none"

\* the lock is free and poisoned: a thread panicked while it held the guard
Poisoned == "poisoned"

\* (clone_url, branch) pairs, named by their cache key
Keys == {"k1", "k2"}

TtlChoices == {-1, 0, 1, 2}

\* the revisions a fetch can resolve to
Revs == {1, 2}
NoHead == 0

----------------------------------------------------------------------------
(* The cache directory of one key *)

\* RepoCacheMeta as found in .skills-hub-cache.json: absent, unparsable, or
\* {last_fetched_ms, head}
NoMeta == [kind |-> "none", last_fetched_ms |-> 0, head |-> NoHead]
BadMeta == [kind |-> "bad", last_fetched_ms |-> 0, head |-> NoHead]
RepoCacheMeta(t, h) == [kind |-> "ok", last_fetched_ms |-> t, head |-> h]

\* dir: "absent" (no directory), "partial" (a directory without a usable
\* .git, left by a failed clone), "clone" (a working clone with .git)
AbsentEntry == [dir |-> "absent", meta |-> NoMeta]
PartialEntry == [dir |-> "partial", meta |-> NoMeta]

\* ttl_ms = get_git_cache_ttl_secs(store).saturating_mul(1000); the values of
\* the model are far from saturation
TtlMs(secs) == secs * 1000

\* the hit condition without the expiry: a valid marker is fresh for ever
IsFresh_NoExpiry(e, t, secs) ==
    /\ e.dir = "clone"
    /\ e.meta.kind = "ok"
    /\ e.meta.head # NoHead
    /\ TtlMs(secs) > 0

\* the hit condition with the end of the window counted in
IsFresh_Inclusive(e, t, secs) ==
    /\ e.dir = "clone"
    /\ e.meta.kind = "ok"
    /\ e.meta.head # NoHead
    /\ TtlMs(secs) > 0
    /\ t - e.meta.last_fetched_ms <= TtlMs(secs)

\* the hit condition with a TTL of zero or less taken for "never expires"
IsFresh_AnyTtl(e, t, secs) ==
    /\ e.dir = "clone"
    /\ e.meta.kind = "ok"
    /\ e.meta.head # NoHead
    /\ TtlMs(secs) <= 0 \/ t - e.meta.last_fetched_ms < TtlMs(secs)

\* installer.rs 895-913: the cache hit condition
IsFresh(e, t, secs) ==
    /\ e.dir = "clone"
    /\ e.meta.kind = "ok"
    /\ e.meta.head # NoHead
    /\ TtlMs(secs) > 0
    /\ t - e.meta.last_fetched_ms < TtlMs(secs)

\* clone_or_pull(clone_url, repo_dir, branch) succeeding: clone if absent,
\* else fetch + checkout; the resolved revision goes to the caller.  A marker
\* file already in the clone is untracked and stays.
FetchOk(e) ==
    [dir |-> "clone", meta |-> IF e.dir = "clone" THEN e.meta ELSE NoMeta]

\* clone_or_pull failing: a failed pull leaves the clone as it was, a failed
\* clone leaves nothing or a partial directory
FetchFailOutcomes(e) ==
    IF e.dir = "clone" THEN {e} ELSE {e, PartialEntry}

\* installer.rs 927-929: if repo_dir.exists() { let _ = remove_dir_all }
\* the result is ignored: the directory is gone, or the removal failed and
\* left it whole, or without its .git and with the marker still there
ResetOutcomes(e) ==
    IF e.dir = "absent"
    THEN {e}
    ELSE {AbsentEntry, e, [dir |-> "partial", meta |-> e.meta]}

\* installer.rs 934-941: let _ = std::fs::write(meta_path, {now_ms(), rev})
WriteMetaOk(e, t, r) == [e EXCEPT !.meta = RepoCacheMeta(t, r)]

\* the result of the write is ignored: a failed write leaves the file as it
\* was, or truncated
WriteMetaFailOutcomes(e) == {e, [e EXCEPT !.meta = BadMeta]}

----------------------------------------------------------------------------
(* clone_to_cache, one step per operation, and the caller's copy-out *)

\* History, per key: how many times the call that wrote the marker now in
\* the cache directory invoked clone_or_pull (0: there is no such marker).
\* It stays while that marker does.
KeepMarkerBy(old, e2) == IF e2.meta.kind = "ok" THEN old ELSE 0

\* pc: "idle", "lock" (blocked in lock.lock()), "check", "fetch1", "reset",
\* "fetch2", "meta", then "copy" (clone_to_cache has returned Ok((repo_dir,
\* rev)) and the caller copies out of repo_dir) or "failed" (it has returned
\* Err and the caller passes the error on).  fetches and fails count the
\* calls of clone_or_pull, and those that failed, of the call in progress
\* or just returned; poisoned: the lock was poisoned when the call took it.
IdleAcq ==
    [pc |-> "idle", key |-> "k1", rev |-> NoHead, fetches |-> 0,
     fails |-> 0, rootErr |-> FALSE, poisoned |-> FALSE]

Critical == {"check", "fetch1", "reset", "fetch2", "meta"}

InitCache ==
    /\ now = 0
    /\ ttl_secs \in TtlChoices
    /\ cache = [k \in Keys |-> AbsentEntry]
    /\ git_cache_lock = NoProc
    /\ acq = [p \in Procs |-> IdleAcq]
    /\ markerBy = [k \in Keys |-> 0]

\* a lock that never blocks
LockAvailable_Always == TRUE

\* lock.lock().unwrap(): a poisoned lock is never taken
LockAvailable_Unwrap == git_cache_lock = NoProc

\* installer.rs 893: lock.lock() returns once no other guard is alive (a
\* poisoned lock is taken all the same: unwrap_or_else(into_inner))
LockAvailable == git_cache_lock \in {NoProc, Poisoned}

\* installer.rs 880-889: resolve the cache root and create it; either can
\* fail, and then clone_to_cache returns Err before it takes the lock
EnterCloneToCache(k, rootOk) ==
    IF rootOk
    THEN [IdleAcq EXCEPT !.pc = "lock", !.key = k]
    ELSE [IdleAcq EXCEPT !.pc = "failed", !.key = k, !.rootErr = TRUE]

CallCloneToCache(p) ==
    /\ acq[p].pc = "idle"
    /\ \E k \in Keys, rootOk \in BOOLEAN :
          acq' = [acq EXCEPT ![p] = EnterCloneToCache(k, rootOk)]
    /\ UNCHANGED <<now, ttl_secs, cache, git_cache_lock, markerBy>>

\* installer.rs 892-893
AcquireLock(p) ==
    /\ acq[p].pc = "lock"
    /\ LockAvailable
    /\ git_cache_lock' = p
    /\ acq' = [acq EXCEPT ![p].pc = "check",
                          ![p].poisoned = (git_cache_lock = Poisoned)]
    /\ UNCHANGED <<now, ttl_secs, cache, markerBy>>

\* installer.rs 895-913: a fresh clone is returned at once with the head of
\* the marker (the guard is dropped on return); anything else goes on to
\* fetch
CheckFresh(p) ==
    /\ acq[p].pc = "check"
    /\ LET e == cache[acq[p].key]
       IN  IF IsFresh(e, now, ttl_secs)
           THEN /\ acq' = [acq EXCEPT ![p].pc = "copy",
                                      ![p].rev = e.meta.head]
                /\ git_cache_lock' = NoProc
           ELSE /\ acq' = [acq EXCEPT ![p].pc = "fetch1"]
                /\ UNCHANGED git_cache_lock
    /\ UNCHANGED <<now, ttl_secs, cache, markerBy>>

\* a failed clone_or_pull returned at once, without the reset and the retry
OnFetchErr_NoRetry(a) ==
    [a EXCEPT !.pc = "failed", !.fetches = @ + 1, !.fails = @ + 1]

\* installer.rs 923-932: what follows a failed clone_or_pull: the first
\* failure goes to the cache reset and the retry, the failure of the retry
\* is returned with `?`
OnFetchErr(a) ==
    IF a.fails = 0
    THEN [a EXCEPT !.pc = "reset", !.fetches = @ + 1, !.fails = @ + 1]
    ELSE [a EXCEPT !.pc = "failed", !.fetches = @ + 1, !.fails = @ + 1]

\* installer.rs 923 and 930: clone_or_pull(clone_url, &repo_dir, branch),
\* the first attempt and the retry
Fetch(p) ==
    /\ acq[p].pc \in {"fetch1", "fetch2"}
    /\ LET k == acq[p].key
           e == cache[k]
       IN  \/ \E r \in Revs :
                /\ cache' = [cache EXCEPT ![k] = FetchOk(e)]
                /\ acq' = [acq EXCEPT ![p].pc = "meta", ![p].rev = r,
                                      ![p].fetches = @ + 1]
                /\ markerBy' = [markerBy EXCEPT ![k] =
                                   KeepMarkerBy(@, FetchOk(e))]
                /\ UNCHANGED git_cache_lock
           \/ \E f \in FetchFailOutcomes(e) :
                LET a == OnFetchErr(acq[p])
                IN  /\ cache' = [cache EXCEPT ![k] = f]
                    /\ acq' = [acq EXCEPT ![p] = a]
                    /\ markerBy' = [markerBy EXCEPT ![k] =
                                       KeepMarkerBy(@, f)]
                    /\ git_cache_lock' =
                           IF a.pc = "failed" THEN NoProc ELSE git_cache_lock
    /\ UNCHANGED <<now, ttl_secs>>

\* a panic inside clone_or_pull: the thread unwinds, the guard is dropped and
\* the lock is poisoned; the call never returns
Panic(p) ==
    /\ acq[p].pc \in {"fetch1", "fetch2"}
    /\ LET k == acq[p].key
       IN  \E f \in FetchFailOutcomes(cache[k]) :
             /\ cache' = [cache EXCEPT ![k] = f]
             /\ markerBy' = [markerBy EXCEPT ![k] = KeepMarkerBy(@, f)]
    /\ acq' = [acq EXCEPT ![p] = IdleAcq]
    /\ git_cache_lock' = Poisoned
    /\ UNCHANGED <<now, ttl_secs>>

\* installer.rs 926-929: the cache reset before the retry
Reset(p) ==
    /\ acq[p].pc = "reset"
    /\ LET k == acq[p].key
       IN  \E e \in ResetOutcomes(cache[k]) :
                /\ cache' = [cache EXCEPT ![k] = e]
                /\ markerBy' = [markerBy EXCEPT ![k] = KeepMarkerBy(@, e)]
    /\ acq' = [acq EXCEPT ![p].pc = "fetch2"]
    /\ UNCHANGED <<now, ttl_secs, git_cache_lock>>

\* installer.rs 934-950: write the marker, return Ok((repo_dir, rev)); the
\* guard is dropped on return
WriteMeta(p) ==
    /\ acq[p].pc = "meta"
    /\ LET k == acq[p].key
           r == acq[p].rev
       IN  \/ /\ cache' = [cache EXCEPT ![k] = WriteMetaOk(@, now, r)]
               /\ markerBy' = [markerBy EXCEPT ![k] = acq[p].fetches]
           \/ \E e \in WriteMetaFailOutcomes(cache[k]) :
                /\ cache' = [cache EXCEPT ![k] = e]
                /\ markerBy' = [markerBy EXCEPT ![k] = KeepMarkerBy(@, e)]
    /\ acq' = [acq EXCEPT ![p].pc = "copy"]
    /\ git_cache_lock' = NoProc
    /\ UNCHANGED <<now, ttl_secs>>

\* installer.rs 204-205, 460-461, 802-803: the caller's
\* copy_dir_recursive(copy_src, ..) out of repo_dir, after clone_to_cache
\* has returned and without the lock
CopyOutDone(p) ==
    /\ acq[p].pc = "copy"
    /\ acq' = [acq EXCEPT ![p] = IdleAcq]
    /\ UNCHANGED <<now, ttl_secs, cache, git_cache_lock, markerBy>>

\* installer.rs 174, 448, 791: clone_to_cache(..)? in the caller: the error
\* is passed on
ErrReturned(p) ==
    /\ acq[p].pc = "failed"
    /\ acq' = [acq EXCEPT ![p] = IdleAcq]
    /\ UNCHANGED <<now, ttl_secs, cache, git_cache_lock, markerBy>>

\* installer.rs 361-366: now_ms() moves on
Tick ==
    /\ now < MaxNowSecs * 1000
    /\ now' = now + 1000
    /\ UNCHANGED <<ttl_secs, cache, git_cache_lock, acq, markerBy>>

----------------------------------------------------------------------------
(* Directory trees *)

Files == {1, 2}
NFiles == Cardinality(Files)

\* content versions of a file
Vers == {1, 2}

\* A directory is NoDir (the path does not exist) or a tree: for each file
\* its version, 0 where the file is missing.
NoDir == << >>
EmptyDir == [f \in Files |-> 0]
FullTree(v) == [f \in Files |-> v]
Trees == [Files -> {0} \cup Vers]

\* the revision checked out in a work tree: revision r has content version r
HeadOf(t) == t[1]

\* what a local source path can hold when a command reads it: nothing, or
\* one version of the skill
Sources == {NoDir} \cup {FullTree(v) : v \in Vers}

\* a complete copy of one version of a source
Complete(t) == \E v \in Vers : t = FullTree(v)

\* copy_dir_recursive(from, to) into a path that does not exist, stopped after
\* the directory and the first j files
CopyPrefix(t, j) == [f \in Files |-> IF f <= j THEN t[f] ELSE 0]

\* what a failed copy_dir_recursive leaves at the destination; a copy of a
\* source that does not exist fails, with no destination or an empty one
CopyFailOutcomes(t) ==
    IF t = NoDir THEN {NoDir, EmptyDir}
    ELSE {NoDir} \cup {CopyPrefix(t, j) : j \in 0..(NFiles - 1)}

\* std::fs::remove_dir_all failing: nothing, or only the first j files, were
\* removed and the directory is still there
RemoveFailOutcomes(t) ==
    {[f \in Files |-> IF f <= j THEN 0 ELSE t[f]] : j \in 0..NFiles}

----------------------------------------------------------------------------
(* The registry: skill_store.rs *)

Ids == {"id1", "id2"}
NoId == "none"
Names == {"a", "b"}

\* the local source path and the repository URL of the model
LocalRef == "s"
GitRef == "g"
NoRev == 0

NoRecord == [id |-> NoId]

SkillRecord(i, n, ty, ref, rev, hash, created, updated) ==
    [id |-> i, name |-> n, source_type |-> ty, source_ref |-> ref,
     source_revision |-> rev, central_path |-> n, content_hash |-> hash,
     created_at |-> created, updated_at |-> updated]

Present(i) == skills[i] # NoRecord

\* Uuid::new_v4(): an id no record has; ids are opaque, the model takes the
\* first free one
IdOrder == <<"id1", "id2">>

IsFreshId(i) ==
    \E x \in DOMAIN IdOrder :
        /\ IdOrder[x] = i
        /\ ~Present(i)
        /\ \A y \in 1..(x - 1) : Present(IdOrder[y])

\* a skills table with no UNIQUE constraint on central_path
UpsertSkillAllowed_Always(tbl, rec) == TRUE

\* skill_store.rs 15-28, 163-209: INSERT .. ON CONFLICT(id) DO UPDATE; the
\* statement fails when another row holds the same central_path (UNIQUE)
UpsertSkillAllowed(tbl, rec) ==
    \A i \in Ids :
        (tbl[i] # NoRecord /\ i # rec.id)
            => tbl[i].central_path # rec.central_path

UpsertSkill(tbl, rec) == [tbl EXCEPT ![rec.id] = rec]

\* the tools that have a skill directory
Tools == {"claude", "cursor"}

\* skill_store.rs 324-351: list_skill_targets returns the rows ORDER BY tool
\* ASC
ToolOrder == <<"claude", "cursor">>

NoTarget == [mode |-> "none"]
NoError == "none"

\* Option<i64>: synced_at
NoTime == [some |-> FALSE, val |-> 0]
AtTime(ms) == [some |-> TRUE, val |-> ms]

\* the target_path of a skill in a tool's directory: <tool's skills dir>/<name>
TargetPath(t, n) == <<t, n>>

\* skill_store.rs 86-95: a row of skill_targets.  The table is the set of
\* its rows.
SkillTargetRecord(i, t, target_path, mode, status, last_error, synced_at) ==
    [skill_id |-> i, tool |-> t, target_path |-> target_path, mode |-> mode,
     status |-> status, last_error |-> last_error, synced_at |-> synced_at]

\* the rows of a table for a skill and a tool
RowsOf(tbl, i, t) == {r \in tbl : r.skill_id = i /\ r.tool = t}

\* skill_store.rs 369-396: get_skill_target, Ok(None) when there is no row
get_skill_target(tbl, i, t) ==
    IF RowsOf(tbl, i, t) = {} THEN NoTarget
    ELSE CHOOSE r \in RowsOf(tbl, i, t) : TRUE

HasTarget(i, t) == RowsOf(targets, i, t) # {}

\* skill_store.rs 30-41, 411-412: FOREIGN KEY(skill_id) REFERENCES skills(id)
\* with foreign_keys ON: a row needs its skill
UpsertSkillTargetAllowed(tbl, i) == tbl[i] # NoRecord

\* an INSERT with no ON CONFLICT clause into a table with no UNIQUE
\* constraint
UpsertSkillTarget_Insert(tbl, row) == tbl \cup {row}

\* skill_store.rs 39, 211-238: UNIQUE(skill_id, tool) and INSERT .. ON
\* CONFLICT(skill_id, tool) DO UPDATE SET target_path, mode, status,
\* last_error, synced_at
UpsertSkillTarget(tbl, row) ==
    (tbl \ RowsOf(tbl, row.skill_id, row.tool)) \cup {row}

\* skill_store.rs 398-406: DELETE FROM skill_targets WHERE skill_id AND tool
delete_skill_target(tbl, i, t) == tbl \ RowsOf(tbl, i, t)

\* skill_store.rs 40, 317-322: DELETE FROM skills, and ON DELETE CASCADE
\* takes the skill's rows of skill_targets with it
delete_skill(tbl, i) == [tbl EXCEPT ![i] = NoRecord]

\* a schema without ON DELETE CASCADE and without enforced foreign keys
DeleteCascade_KeepRows(tbl, i) == tbl

DeleteCascade(tbl, i) == {r \in tbl : r.skill_id # i}

list_skill_targets(i) == SelectSeq(ToolOrder, LAMBDA t : HasTarget(i, t))

\* installer.rs 384-390: the content hash of a directory
compute_content_hash(t) == t

----------------------------------------------------------------------------
(* The canonical store writer: installer.rs *)

\* The operation in progress.  kind: "install_local", "install_git",
\* "update".  pc: "idle"; "acquire" (inside clone_to_cache); "remove",
\* "rename", "fallback", "record" (the steps of the swap); "done" (returned:
\* res is "ok" or "err").
IdleOp ==
    [kind |-> "none", pc |-> "idle", res |-> "none", name |-> "a",
     id |-> NoId, existed |-> FALSE, now |-> 0, staging |-> NoDir,
     new_revision |-> NoRev, copied |-> 0, queue |-> << >>,
     updated_targets |-> << >>, skipped |-> {}, no_source |-> FALSE]

Caller == "p1"
RepoKey == "k1"

InitStore ==
    /\ central = [n \in Names |-> NoDir]
    /\ skills = [i \in Ids |-> NoRecord]
    /\ targets = {}
    /\ tdirs = [i \in Ids |-> [t \in Tools |-> NoDir]]
    /\ op = IdleOp
    /\ nops = 0

\* a command can start while commands are left in the budget of the model
CanStart == op.pc = "idle" /\ nops < MaxOps

Returned(o, kind, n, res, existed) ==
    [o EXCEPT !.kind = kind, !.pc = "done", !.res = res, !.name = n,
              !.existed = existed]

\* an exists() check that never finds the destination
DestExists_Never(n) == FALSE

\* installer.rs 103-105, 167-169, 786-788: central_path.exists()
DestExists(n) == central[n] # NoDir

\* installer.rs 107-134, 204-229, 802-824: copy the source into the
\* destination, then write the record under a fresh id.  A failed copy and a
\* failed upsert_skill return with `?`.  op.no_source: the source of the
\* install did not exist.
CopyAndRecord(kind, n, i, from, ty, ref, rev, dbOk) ==
    LET o == [IdleOp EXCEPT !.no_source = (from = NoDir)]
    IN  \/ \E c \in CopyFailOutcomes(from) :
              /\ central' = [central EXCEPT ![n] = c]
              /\ op' = Returned(o, kind, n, "err", FALSE)
              /\ UNCHANGED skills
        \/ /\ from # NoDir
           /\ central' = [central EXCEPT ![n] = from]
           /\ LET rec == SkillRecord(i, n, ty, ref, rev,
                                     compute_content_hash(from), now, now)
              IN  IF dbOk /\ UpsertSkillAllowed(skills, rec)
                  THEN /\ skills' = UpsertSkill(skills, rec)
                       /\ op' = [Returned(o, kind, n, "ok", FALSE)
                                   EXCEPT !.id = i]
                  ELSE /\ op' = Returned(o, kind, n, "err", FALSE)
                       /\ UNCHANGED skills

\* an exists() check that never misses the source
SourceMissing_Never(src) == FALSE

\* installer.rs 88-90, 178-181, 797-800: !source_path.exists(),
\* !sub_src.exists()
SourceMissing(src) == src = NoDir

\* installer.rs 82-142: install_local_skill (and 834-864,
\* install_local_skill_from_selection, which ends in it).  origin: the
\* source is a git work tree with an origin remote (detect_git_origin,
\* 30-80), and then the record is a git record with the revision of HEAD.
InstallLocal ==
    /\ CanStart
    /\ nops' = nops + 1
    /\ \E n \in Names, i \in Ids, src \in Sources, rootOk \in BOOLEAN,
          dbOk \in BOOLEAN, hasOrigin \in BOOLEAN :
         /\ IsFreshId(i)
         /\ IF SourceMissing(src)
            THEN /\ op' = Returned([IdleOp EXCEPT !.no_source = TRUE],
                                   "install_local", n, "err", DestExists(n))
                 /\ UNCHANGED <<central, skills>>
            ELSE IF ~rootOk
            THEN /\ op' = Returned([IdleOp EXCEPT !.no_source =
                                                      (src = NoDir)],
                                   "install_local", n, "err", DestExists(n))
                 /\ UNCHANGED <<central, skills>>
            ELSE IF DestExists(n)
            THEN /\ op' = Returned([IdleOp EXCEPT !.no_source =
                                                      (src = NoDir)],
                                   "install_local", n, "err", TRUE)
                 /\ UNCHANGED <<central, skills>>
            ELSE IF ~hasOrigin
            THEN CopyAndRecord("install_local", n, i, src, "local",
                               LocalRef, NoRev, dbOk)
            ELSE CopyAndRecord("install_local", n, i, src, "git",
                               GitRef, HeadOf(src), dbOk)
    /\ UNCHANGED <<now, cacheVars, tgtVars>>

\* installer.rs 144-174 and 767-791: install_git_skill and
\* install_git_skill_from_selection up to their call of clone_to_cache
InstallGitStart ==
    /\ CanStart
    /\ nops' = nops + 1
    /\ \E n \in Names, rootOk \in BOOLEAN, cacheRootOk \in BOOLEAN :
         IF ~rootOk \/ DestExists(n)
         THEN /\ op' = Returned(IdleOp, "install_git", n, "err",
                                DestExists(n))
              /\ UNCHANGED acq
         ELSE /\ op' = [IdleOp EXCEPT !.kind = "install_git",
                                      !.pc = "acquire", !.name = n]
              /\ acq' = [acq EXCEPT ![Caller] =
                            EnterCloneToCache(RepoKey, cacheRootOk)]
    /\ UNCHANGED <<now, ttl_secs, cache, git_cache_lock, markerBy,
                   central, skills, tgtVars>>

\* installer.rs 174, 448, 791: clone_to_cache(..)? has returned Err
AcquireFailed ==
    /\ op.pc = "acquire"
    /\ acq[Caller].pc = "failed"
    /\ acq' = [acq EXCEPT ![Caller] = IdleAcq]
    /\ op' = Returned(op, op.kind, op.name, "err", FALSE)
    /\ UNCHANGED <<now, ttl_secs, cache, git_cache_lock, markerBy,
                   central, skills, tgtVars, nops>>

\* installer.rs 176-229 and 793-824: the rest of the git installs.
\* hasSubpath: the clone holds the subpath of the reference (its root, when
\* there is none); multi: the reference is a repository root that holds
\* several skills (install_git_skill, 183-201).
InstallGitCopy ==
    /\ op.pc = "acquire"
    /\ op.kind = "install_git"
    /\ acq[Caller].pc = "copy"
    /\ acq' = [acq EXCEPT ![Caller] = IdleAcq]
    /\ \E i \in Ids, hasSubpath \in BOOLEAN, multi \in BOOLEAN,
          dbOk \in BOOLEAN :
         LET sub_src == IF hasSubpath THEN FullTree(acq[Caller].rev)
                        ELSE NoDir
         IN  /\ IsFreshId(i)
             /\ ~hasSubpath => ~multi
             /\ IF SourceMissing(sub_src)
                THEN /\ op' = Returned([IdleOp EXCEPT !.no_source = TRUE],
                                       "install_git", op.name, "err", FALSE)
                     /\ UNCHANGED <<central, skills>>
                ELSE IF multi
                THEN /\ op' = Returned(IdleOp, "install_git", op.name,
                                       "err", FALSE)
                     /\ UNCHANGED <<central, skills>>
                ELSE CopyAndRecord("install_git", op.name, i, sub_src,
                                   "git", GitRef, acq[Caller].rev, dbOk)
    /\ UNCHANGED <<now, ttl_secs, cache, git_cache_lock, markerBy,
                   tgtVars, nops>>

\* a check that never misses the canonical directory
CentralPathMissing_Never(rec) == FALSE

\* installer.rs 421-424: if !central_path.exists() { bail!(..) }
CentralPathMissing(rec) == ~DestExists(rec.central_path)

\* a test that takes every record that is not a git record for a local one
IsLocalSource_Else(rec) == TRUE

\* installer.rs 462: else if record.source_type == "local"
IsLocalSource(rec) == rec.source_type = "local"

\* installer.rs 412-475: update_managed_skill_from_source up to the swap:
\* look the record up, check the canonical directory, then rebuild the
\* content in the staging directory.  A git record goes through
\* clone_to_cache first; a local record is copied from its source_ref here.
UpdateStart ==
    /\ CanStart
    /\ nops' = nops + 1
    /\ \E i \in Ids, src \in Sources, cacheRootOk \in BOOLEAN :
         LET o == [IdleOp EXCEPT !.kind = "update", !.id = i, !.now = now]
         IN  IF ~Present(i)
             THEN /\ op' = [o EXCEPT !.pc = "done", !.res = "err"]
                  /\ UNCHANGED acq
             ELSE LET rec == skills[i]
                      u == [o EXCEPT !.name = rec.central_path]
                  IN  IF CentralPathMissing(rec)
                      THEN /\ op' = [u EXCEPT !.pc = "done", !.res = "err"]
                           /\ UNCHANGED acq
                      ELSE IF rec.source_type = "git"
                      THEN /\ op' = [u EXCEPT !.pc = "acquire"]
                           /\ acq' = [acq EXCEPT ![Caller] =
                                  EnterCloneToCache(RepoKey, cacheRootOk)]
                      ELSE IF IsLocalSource(rec)
                      THEN /\ UNCHANGED acq
                           /\ IF src = NoDir
                              THEN op' = [u EXCEPT !.pc = "done",
                                                   !.res = "err"]
                              ELSE \/ op' = [u EXCEPT !.pc = "remove",
                                                      !.staging = src]
                                   \/ \E c \in CopyFailOutcomes(src) :
                                        op' = [u EXCEPT !.pc = "done",
                                                        !.res = "err",
                                                        !.staging = c]
                      ELSE /\ op' = [u EXCEPT !.pc = "done", !.res = "err"]
                           /\ UNCHANGED acq
    /\ UNCHANGED <<now, ttl_secs, cache, git_cache_lock, markerBy,
                   central, skills, tgtVars>>

\* the copy out of the clone made in place, over the canonical directory,
\* with no staging directory
UpdateCopyOut_InPlace ==
    /\ op.pc = "acquire"
    /\ op.kind = "update"
    /\ acq[Caller].pc = "copy"
    /\ acq' = [acq EXCEPT ![Caller] = IdleAcq]
    /\ LET rev == acq[Caller].rev
           u == [op EXCEPT !.new_revision = rev]
       IN  \E srcOk \in BOOLEAN :
             IF ~srcOk
             THEN /\ op' = [u EXCEPT !.pc = "done", !.res = "err"]
                  /\ UNCHANGED central
             ELSE \/ /\ op' = [u EXCEPT !.pc = "record"]
                     /\ central' = [central EXCEPT ![op.name] = FullTree(rev)]
                  \/ \E c \in CopyFailOutcomes(FullTree(rev)) :
                       /\ op' = [u EXCEPT !.pc = "done", !.res = "err"]
                       /\ central' = [central EXCEPT ![op.name] = c]
    /\ UNCHANGED <<now, ttl_secs, cache, git_cache_lock, markerBy,
                   skills, tgtVars, nops>>

\* installer.rs 447-461: clone_to_cache has returned Ok((repo_dir, rev)):
\* the copy out of the clone into the staging directory.  srcOk: the subpath
\* exists in the clone.
UpdateCopyOut ==
    /\ op.pc = "acquire"
    /\ op.kind = "update"
    /\ acq[Caller].pc = "copy"
    /\ acq' = [acq EXCEPT ![Caller] = IdleAcq]
    /\ LET rev == acq[Caller].rev
           u == [op EXCEPT !.new_revision = rev]
       IN  \E srcOk \in BOOLEAN :
             IF ~srcOk
             THEN op' = [u EXCEPT !.pc = "done", !.res = "err"]
             ELSE \/ op' = [u EXCEPT !.pc = "remove",
                                     !.staging = FullTree(rev)]
                  \/ \E c \in CopyFailOutcomes(FullTree(rev)) :
                       op' = [u EXCEPT !.pc = "done", !.res = "err",
                                       !.staging = c]
    /\ UNCHANGED <<now, ttl_secs, cache, git_cache_lock, markerBy,
                   central, skills, tgtVars, nops>>

\* installer.rs 478-479: std::fs::remove_dir_all(&central_path)?
UpdateRemoveOld ==
    /\ op.pc = "remove"
    /\ \/ /\ central' = [central EXCEPT ![op.name] = NoDir]
          /\ op' = [op EXCEPT !.pc = "rename"]
       \/ \E t \in RemoveFailOutcomes(central[op.name]) :
            /\ central' = [central EXCEPT ![op.name] = t]
            /\ op' = [op EXCEPT !.pc = "done", !.res = "err"]
    /\ UNCHANGED <<now, cacheVars, skills, tgtVars, nops>>

\* a rename whose failure is returned to the caller, with no fallback
UpdateRename_Surfaced ==
    /\ op.pc = "rename"
    /\ \/ /\ central' = [central EXCEPT ![op.name] = op.staging]
          /\ op' = [op EXCEPT !.pc = "record", !.staging = NoDir]
       \/ /\ op' = [op EXCEPT !.pc = "done", !.res = "err"]
          /\ UNCHANGED central
    /\ UNCHANGED <<now, cacheVars, skills, tgtVars, nops>>

\* installer.rs 480: std::fs::rename(&staging_dir, &central_path); when it
\* fails the update goes on to the fallback copy
UpdateRename ==
    /\ op.pc = "rename"
    /\ \/ /\ central' = [central EXCEPT ![op.name] = op.staging]
          /\ op' = [op EXCEPT !.pc = "record", !.staging = NoDir]
       \/ /\ op' = [op EXCEPT !.pc = "fallback", !.copied = 0]
          /\ UNCHANGED central
    /\ UNCHANGED <<now, cacheVars, skills, tgtVars, nops>>

\* installer.rs 482-483: copy_dir_recursive(&staging_dir, &central_path)?,
\* the destination directory first, then file by file; any of its steps can
\* fail
StartFallbackCopy(t) == EmptyDir

FallbackCopyFile(t, from, f) == [t EXCEPT ![f] = from[f]]

UpdateFallbackCopy ==
    /\ op.pc = "fallback"
    /\ op.copied <= NFiles
    /\ \/ /\ op' = [op EXCEPT !.pc = "done", !.res = "err"]
          /\ UNCHANGED central
       \/ /\ central[op.name] = NoDir
          /\ central' = [central EXCEPT ![op.name] = StartFallbackCopy(@)]
          /\ UNCHANGED op
       \/ /\ central[op.name] # NoDir
          /\ op.copied < NFiles
          /\ central' = [central EXCEPT ![op.name] =
                            FallbackCopyFile(@, op.staging, op.copied + 1)]
          /\ op' = [op EXCEPT !.copied = @ + 1]
    /\ UNCHANGED <<now, cacheVars, skills, tgtVars, nops>>

\* installer.rs 484: let _ = std::fs::remove_dir_all(&staging_dir), once the
\* fallback copy is complete; its failure is ignored
UpdateFallbackCleanup ==
    /\ op.pc = "fallback"
    /\ central[op.name] # NoDir
    /\ op.copied = NFiles
    /\ \E st \in {NoDir, op.staging} :
         op' = [op EXCEPT !.pc = "record", !.staging = st]
    /\ UNCHANGED <<now, cacheVars, central, skills, tgtVars, nops>>

\* a rewrite that leaves the revision of the record as it was
UpdatedRecord_KeepRevision(rec, o, t) ==
    [rec EXCEPT !.content_hash = compute_content_hash(t),
                !.updated_at = o.now]

\* installer.rs 489-509: the record is rewritten from the swapped-in
\* directory
UpdatedRecord(rec, o, t) ==
    [rec EXCEPT !.source_revision =
                    IF o.new_revision # NoRev THEN o.new_revision ELSE @,
                !.content_hash = compute_content_hash(t),
                !.updated_at = o.now]

UpdateRecord ==
    /\ op.pc = "record"
    /\ \E dbOk \in BOOLEAN, listOk \in BOOLEAN :
         LET rec == UpdatedRecord(skills[op.id], op, central[op.name])
         IN  IF dbOk /\ UpsertSkillAllowed(skills, rec)
             THEN /\ skills' = UpsertSkill(skills, rec)
                  /\ op' = IF listOk
                            THEN [op EXCEPT !.pc = "sync",
                                     !.queue = list_skill_targets(op.id)]
                            ELSE [op EXCEPT !.pc = "done", !.res = "err"]
             ELSE /\ op' = [op EXCEPT !.pc = "done", !.res = "err"]
                  /\ UNCHANGED skills
    /\ UNCHANGED <<now, cacheVars, central, tgtVars, nops>>

\* sync_dir_copy_with_overwrite(central_path, target_path, true): the target
\* is replaced by a copy of the canonical directory
SyncOk(from) == from

\* a failed sync leaves the old target, no target, or the start of the copy
SyncFailOutcomes(old, from) == {old} \cup CopyFailOutcomes(from)

\* a loop that re-syncs the copy-mode rows only
ForceCopy_CopyOnly(row, t) == row.mode = "copy"

\* installer.rs 523: the row is re-synced when its mode is copy or its tool
\* is cursor
ForceCopy(row, t) == row.mode = "copy" \/ t = "cursor"

\* a loop that skips no target
SkipTarget_Never(installed) == FALSE

\* installer.rs 516-520: a target whose tool is not installed is skipped
SkipTarget(installed) == ~installed

\* installer.rs 515-537: one round of the loop over the skill's targets.
\* installed: is_tool_installed(adapter).unwrap_or(false); op.skipped keeps
\* the tools found not installed.  A failed sync and a failed
\* upsert_skill_target return with `?`.
UpdateSyncTarget ==
    /\ op.pc = "sync"
    /\ op.queue # << >>
    /\ \E installed \in BOOLEAN, syncOk \in BOOLEAN, dbOk \in BOOLEAN :
         LET t == Head(op.queue)
             row == get_skill_target(targets, op.id, t)
             next == [op EXCEPT !.queue = Tail(@),
                                !.skipped = IF installed THEN @
                                            ELSE @ \cup {t}]
             failed == [next EXCEPT !.pc = "done", !.res = "err",
                                    !.queue = op.queue]
         IN  IF SkipTarget(installed) \/ ~ForceCopy(row, t)
             THEN /\ op' = next
                  /\ UNCHANGED <<targets, tdirs>>
             ELSE IF ~syncOk
             THEN /\ \E d \in SyncFailOutcomes(tdirs[op.id][t],
                                               central[op.name]) :
                       tdirs' = [tdirs EXCEPT ![op.id][t] = d]
                  /\ op' = failed
                  /\ UNCHANGED targets
             ELSE /\ tdirs' = [tdirs EXCEPT ![op.id][t] =
                                  SyncOk(central[op.name])]
                  /\ IF dbOk /\ UpsertSkillTargetAllowed(skills, op.id)
                     THEN /\ targets' = UpsertSkillTarget(targets,
                                 SkillTargetRecord(op.id, t, row.target_path,
                                     "copy", "ok", NoError, AtTime(op.now)))
                          /\ op' = [next EXCEPT !.updated_targets =
                                                   Append(@, t)]
                     ELSE /\ op' = failed
                          /\ UNCHANGED targets
    /\ UNCHANGED <<now, cacheVars, central, skills, nops>>

\* installer.rs 541-548: Ok(UpdateResult {..}) once the loop is over
UpdateFinish ==
    /\ op.pc = "sync"
    /\ op.queue = << >>
    /\ op' = [op EXCEPT !.pc = "done", !.res = "ok"]
    /\ UNCHANGED <<now, cacheVars, central, skills, tgtVars, nops>>

\* The command that syncs a managed skill into a tool's directory and
\* records the target: the directory is a copy of the canonical one, or a
\* link to it (kept as no directory of its own), and the row is written
\* with status ok.
SyncSkillToTool ==
    /\ CanStart
    /\ nops' = nops + 1
    /\ \E i \in Ids, t \in Tools, mode \in {"copy", "symlink"} :
         /\ Present(i)
         /\ DestExists(skills[i].central_path)
         /\ ~HasTarget(i, t)
         /\ tdirs' = [tdirs EXCEPT ![i][t] =
                         IF mode = "copy"
                         THEN SyncOk(central[skills[i].central_path])
                         ELSE NoDir]
         /\ targets' = UpsertSkillTarget(targets,
                           SkillTargetRecord(i, t, TargetPath(t, skills[i].name),
                               mode, "ok", NoError, AtTime(now)))
    /\ UNCHANGED <<now, cacheVars, central, skills, op>>

\* the command has returned to its caller
Return ==
    /\ op.pc = "done"
    /\ op' = IdleOp
    /\ UNCHANGED <<now, cacheVars, central, skills, tgtVars, nops>>

----------------------------------------------------------------------------
(* The registry on its own: the calls of skill_store.rs, with any arguments *)

\* the calls of one run of the registry
MaxCalls == 4

Modes == {"copy", "symlink"}
Statuses == {"ok", "error"}
LastErrors == {NoError, "failed"}
SyncedAts == {NoTime, AtTime(0)}

\* the records a caller can pass to upsert_skill_target
TargetRecords ==
    {SkillTargetRecord(i, t, TargetPath(t, n), m, st, e, at) :
        i \in Ids, t \in Tools, n \in Names, m \in Modes, st \in Statuses,
        e \in LastErrors, at \in SyncedAts}

CanCall == nops < MaxCalls

\* skill_store.rs 163-209: upsert_skill(record)
CallUpsertSkill ==
    /\ CanCall
    /\ nops' = nops + 1
    /\ \E i \in Ids, n \in Names :
         LET rec == SkillRecord(i, n, "local", LocalRef, NoRev,
                                compute_content_hash(EmptyDir), now, now)
         IN  IF UpsertSkillAllowed(skills, rec)
             THEN /\ skills' = UpsertSkill(skills, rec)
                  /\ fn' = [name |-> "upsert_skill", ret |-> "ok"]
             ELSE /\ fn' = [name |-> "upsert_skill", ret |-> "err"]
                  /\ UNCHANGED skills
    /\ UNCHANGED <<now, cacheVars, central, tgtVars, op>>

\* skill_store.rs 317-322: delete_skill(skill_id).  fn keeps the id of the
\* call and the number of target rows that went with the record.
CallDeleteSkill ==
    /\ CanCall
    /\ nops' = nops + 1
    /\ \E i \in Ids :
         /\ skills' = delete_skill(skills, i)
         /\ targets' = DeleteCascade(targets, i)
         /\ fn' = [name |-> "delete_skill", ret |-> "ok", id |-> i,
                   removed |-> Cardinality(targets \ DeleteCascade(targets, i))]
    /\ UNCHANGED <<now, cacheVars, central, tdirs, op>>

\* skill_store.rs 211-238: upsert_skill_target(record).  fn keeps the record
\* of the call and whether its pair had a row.
CallUpsertSkillTarget ==
    /\ CanCall
    /\ nops' = nops + 1
    /\ \E row \in TargetRecords :
         IF UpsertSkillTargetAllowed(skills, row.skill_id)
         THEN /\ targets' = UpsertSkillTarget(targets, row)
              /\ fn' = [name |-> "upsert_skill_target", record |-> row,
                        ret |-> IF RowsOf(targets, row.skill_id,
                                          row.tool) = {}
                                THEN "inserted" ELSE "replaced"]
         ELSE /\ fn' = [name |-> "upsert_skill_target", record |-> row,
                        ret |-> "err"]
              /\ UNCHANGED targets
    /\ UNCHANGED <<now, cacheVars, central, skills, tdirs, op>>

\* skill_store.rs 398-406: delete_skill_target(skill_id, tool)
CallDeleteSkillTarget ==
    /\ CanCall
    /\ nops' = nops + 1
    /\ \E i \in Ids, t \in Tools :
         targets' = delete_skill_target(targets, i, t)
    /\ fn' = [name |-> "delete_skill_target", ret |-> "ok"]
    /\ UNCHANGED <<now, cacheVars, central, skills, tdirs, op>>

----------------------------------------------------------------------------
(* Pure functions: strings are sequences of characters *)

\* Option<String>
None == [some |-> FALSE, val |-> << >>]
Some(x) == [some |-> TRUE, val |-> x]

\* str::starts_with, str::ends_with
StartsWith(s, pre) ==
    Len(s) >= Len(pre) /\ SubSeq(s, 1, Len(pre)) = pre

EndsWith(s, suf) ==
    Len(s) >= Len(suf) /\ SubSeq(s, Len(s) - Len(suf) + 1, Len(s)) = suf

\* the string from its n+1st character on: &s[n..]
Skip(s, n) == SubSeq(s, n + 1, Len(s))

Whitespace == {" ", "\t", "\n"}

RECURSIVE TrimStart(_)
TrimStart(s) ==
    IF s # << >> /\ Head(s) \in Whitespace THEN TrimStart(Tail(s)) ELSE s

RECURSIVE TrimEnd(_)
TrimEnd(s) ==
    IF s # << >> /\ s[Len(s)] \in Whitespace
    THEN TrimEnd(SubSeq(s, 1, Len(s) - 1))
    ELSE s

\* str::trim
Trim(s) == TrimEnd(TrimStart(s))

\* str::trim_end_matches(pat): the suffix is removed as often as it matches
RECURSIVE TrimEndMatches(_, _)
TrimEndMatches(s, pat) ==
    IF EndsWith(s, pat)
    THEN TrimEndMatches(SubSeq(s, 1, Len(s) - Len(pat)), pat)
    ELSE s

\* str::strip_suffix(suf): Some(the rest) when the suffix is there, once
StripSuffix(s, suf) ==
    IF EndsWith(s, suf) THEN Some(SubSeq(s, 1, Len(s) - Len(suf))) ELSE None

\* str::contains
Contains(s, pat) ==
    \E i \in 0..(Len(s) - Len(pat)) : SubSeq(s, i + 1, i + Len(pat)) = pat

\* str::split(c).collect(): the pieces between the separators, empty ones
\* included
RECURSIVE Split(_, _)
Split(s, c) ==
    IF \A i \in 1..Len(s) : s[i] # c
    THEN <<s>>
    ELSE LET i == CHOOSE j \in 1..Len(s) :
                      s[j] = c /\ \A k \in 1..(j - 1) : s[k] # c
         IN  <<SubSeq(s, 1, i - 1)>> \o Split(Skip(s, i), c)

\* [&str]::join(sep)
RECURSIVE Join(_, _)
Join(parts, sep) ==
    IF parts = << >> THEN << >>
    ELSE IF Len(parts) = 1 THEN parts[1]
    ELSE parts[1] \o sep \o Join(Tail(parts), sep)

\* "https://github.com/", "http://github.com/", "github.com/", ".git"
GhPrefix == <<"h", "t", "t", "p", "s", ":", "/", "/", "g", "i", "t", "h", "u", "b", ".", "c", "o", "m", "/">>
GhHttpPrefix == <<"h", "t", "t", "p", ":", "/", "/", "g", "i", "t", "h", "u", "b", ".", "c", "o", "m", "/">>
GhBarePrefix == <<"g", "i", "t", "h", "u", "b", ".", "c", "o", "m", "/">>
HttpsScheme == <<"h", "t", "t", "p", "s", ":", "/", "/">>
DotGit == <<".", "g", "i", "t">>
Slash == <<"/">>
TreeSeg == <<"t", "r", "e", "e">>
BlobSeg == <<"b", "l", "o", "b">>

\* char::is_ascii_alphanumeric
AsciiAlphanumeric ==
    {"a", "b", "c", "d", "e", "f", "g", "h", "i", "j", "k", "l", "m", "n",
     "o", "p", "q", "r", "s", "t", "u", "v", "w", "x", "y", "z",
     "A", "B", "C", "D", "E", "F", "G", "H", "I", "J", "K", "L", "M", "N",
     "O", "P", "Q", "R", "S", "T", "U", "V", "W", "X", "Y", "Z",
     "0", "1", "2", "3", "4", "5", "6", "7", "8", "9"}

\* a segment test that lets every character through
is_safe_segment_Any(x) == TRUE

\* installer.rs 344-347
is_safe_segment(x) ==
    \A i \in 1..Len(x) : x[i] \in AsciiAlphanumeric \cup {"-", "_", "."}

\* a shorthand test that looks only for two segments and no ':' or '@'
looks_like_github_shorthand_TwoParts(input) ==
    /\ Len(Split(input, "/")) >= 2
    /\ ~Contains(input, <<":">>)
    /\ ~Contains(input, <<"@">>)

\* installer.rs 316-359
looks_like_github_shorthand(input) ==
    IF input = << >> THEN FALSE
    ELSE IF Head(input) \in {"/", "~", "."} THEN FALSE
    ELSE IF Contains(input, <<":", "/", "/">>) \/ Contains(input, <<"@">>)
            \/ Contains(input, <<":">>) THEN FALSE
    ELSE LET parts == Split(input, "/")
         IN  IF Len(parts) < 2 THEN FALSE
             ELSE LET owner == parts[1]
                      repo == parts[2]
                  IN  IF owner = << >> \/ repo = << >>
                         \/ owner = <<".">> \/ owner = <<".", ".">>
                         \/ repo = <<".">> \/ repo = <<".", ".">>
                      THEN FALSE
                      ELSE IF ~is_safe_segment(owner)
                              \/ ~is_safe_segment(TrimEndMatches(repo, DotGit))
                      THEN FALSE
                      ELSE IF Len(parts) > 2
                      THEN parts[3] \in {TreeSeg, BlobSeg}
                      ELSE TRUE

\* installer.rs 240-244
ParsedGitSource(clone_url, branch, subpath) ==
    [clone_url |-> clone_url, branch |-> branch, subpath |-> subpath]

\* installer.rs 246-314
parse_github_url(input) ==
    LET trimmed0 == TrimEndMatches(Trim(input), Slash)
        normalized ==
            IF StartsWith(trimmed0, GhPrefix) THEN trimmed0
            ELSE IF StartsWith(trimmed0, GhHttpPrefix)
            THEN GhPrefix \o Skip(trimmed0, Len(GhHttpPrefix))
            ELSE IF StartsWith(trimmed0, GhBarePrefix)
            THEN HttpsScheme \o trimmed0
            ELSE IF looks_like_github_shorthand(trimmed0)
            THEN GhPrefix \o trimmed0
            ELSE trimmed0
        trimmed == TrimEndMatches(normalized, Slash)
    IN  IF ~StartsWith(trimmed, GhPrefix)
        THEN ParsedGitSource(trimmed, None, None)
        ELSE LET parts == Split(Skip(trimmed, Len(GhPrefix)), "/")
             IN  IF Len(parts) < 2
                 THEN ParsedGitSource(trimmed, None, None)
                 ELSE LET owner == parts[1]
                          stripped == StripSuffix(parts[2], DotGit)
                          repo == IF stripped.some THEN stripped.val
                                  ELSE parts[2]
                          clone_url ==
                              GhPrefix \o owner \o Slash \o repo \o DotGit
                      IN  IF Len(parts) >= 4
                             /\ parts[3] \in {TreeSeg, BlobSeg}
                          THEN ParsedGitSource(clone_url, Some(parts[4]),
                                   IF Len(parts) > 4
                                   THEN Some(Join(SubSeq(parts, 5,
                                                         Len(parts)), Slash))
                                   ELSE None)
                          ELSE ParsedGitSource(clone_url, None, None)

\* no pure function has been called yet; each behaviour calls one, once
NoCall == [name |-> "none"]

InitPure == fn = NoCall

\* the rest of the state while a pure function is called
pureFrame == <<now, cacheVars, central, skills, tgtVars, op, nops>>

\* installer.rs 953-962: the bytes fed to the hasher: clone_url, "\n", and
\* the branch when there is one.  The key is hex(sha256(bytes)); the model
\* keeps the bytes, sha256 having no known collisions.
repo_cache_key(clone_url, branch) ==
    clone_url \o <<"\n">> \o (IF branch.some THEN branch.val ELSE << >>)

\* the clone urls and branches repo_cache_key is called with
KeyUrls == {<<"u">>, <<"v">>, <<"u", "\n">>, <<"u", "\n", "m">>}
KeyBranches ==
    {None, Some(<< >>), Some(<<"m">>), Some(<<"n">>), Some(<<"m", "n">>),
     Some(<<"\n", "m">>)}

CallRepoCacheKey ==
    /\ fn = NoCall
    /\ \E u \in KeyUrls, b \in KeyBranches :
         fn' = [name |-> "repo_cache_key", clone_url |-> u, branch |-> b,
                ret |-> repo_cache_key(u, b)]
    /\ UNCHANGED pureFrame

\* The references parse_github_url is called with.  A GitHub reference is
\* put together from a prefix (none: the owner/repo shorthand), an owner, a
\* repository, ".git" or not, and for a folder URL "tree" or "blob", a
\* branch and the segments of a path.
GhPrefixes == {<< >>, GhPrefix, GhHttpPrefix, GhBarePrefix}
GhOwners == {<<"o">>}
GhRepos == {<<"r">>, <<"s", ".", "j", "s">>}
GhMarkers == {TreeSeg, BlobSeg}
GhBranches == {<<"b">>, <<"v", "1">>}
GhPaths == {<< >>, <<<<"p">>>>, <<<<"p">>, <<"q">>>>, <<<<"@", "s">>, <<"p">>>>}

GhRef(pre, owner, repo, dotGit, marker, branch, path) ==
    pre \o owner \o Slash \o repo
        \o (IF dotGit THEN DotGit ELSE << >>)
        \o (IF marker = << >> THEN << >>
            ELSE Slash \o marker \o Slash \o branch
                     \o (IF path = << >> THEN << >>
                         ELSE Slash \o Join(path, Slash)))

\* local paths and remotes that are not GitHub's
OtherRefs ==
    {<<"/", "p", "/", "q">>, <<".", "/", "p">>, <<"~", "/", "p">>, <<"p">>, <<"q", "/", "p", "/", "x">>,
     <<"g", "i", "t", "@", "h", ".", "i", "o", ":", "o", "/", "r", ".", "g", "i", "t">>, <<"h", "t", "t", "p", "s", ":", "/", "/", "g", "l", ".", "i", "o", "/", "o", "/", "r">>,
     <<"s", "s", "h", ":", "/", "/", "g", "i", "t", "@", "g", "i", "t", "h", "u", "b", ".", "c", "o", "m", "/", "o", "/", "r">>, <<"C", ":", "/", "p">>}

\* what may surround a reference: white space before it, slashes and white
\* space after it
Leads == {<< >>, <<" ">>}
Trails == {<< >>, Slash, <<"/", "/">>, <<" ">>, <<"/", " ">>}

ParseGithubRef ==
    /\ fn = NoCall
    /\ \E pre \in GhPrefixes, owner \in GhOwners, repo \in GhRepos,
          dotGit \in BOOLEAN, marker \in GhMarkers \cup {<< >>},
          branch \in GhBranches, path \in GhPaths, lead \in Leads,
          trail \in Trails :
         /\ marker = << >> => branch = <<"b">> /\ path = << >>
         /\ marker # << >> => ~dotGit
         /\ LET input == lead \o GhRef(pre, owner, repo, dotGit, marker,
                                        branch, path) \o trail
            IN  fn' = [name |-> "parse_github_url", kind |-> "github",
                       input |-> input, pre |-> pre, owner |-> owner,
                       repo |-> repo, marker |-> marker, branch |-> branch,
                       path |-> path, ret |-> parse_github_url(input)]
    /\ UNCHANGED pureFrame

\* The inputs the shorthand test is tried on: something before the owner
\* (nothing, the user and host of an scp-like remote, a scheme, a user, a
\* drive), an owner, a repository and the rest of the path.
SshPrefix == <<"g", "i", "t", "@">> \o <<"g", "i", "t", "h", "u", "b", ".", "c", "o", "m", ":">>
ShPres == {<< >>, SshPrefix, <<"x", ":", "/", "/">>, <<"u", "@">>, <<"c", ":">>}
ShOwners ==
    {<<"o">>, <<"o", "-", "1">>, <<"O", "_", ".">>, <<"o", "!">>,
     <<"o", " ", "p">>, <<"o", "+">>, <<".">>, <<".", ".">>, << >>}
ShRepos ==
    {<<"r">>, <<"r">> \o DotGit, <<"r", "$">>, <<"r", "#">> \o DotGit,
     <<".", ".">>, << >>}
ShTails == {<< >>, Slash \o TreeSeg \o <<"/", "b">>, <<"/", "x">>}

ParseShorthandRef ==
    /\ fn = NoCall
    /\ \E pre \in ShPres, owner \in ShOwners, repo \in ShRepos,
          tail \in ShTails :
         LET input == pre \o owner \o Slash \o repo \o tail
         IN  fn' = [name |-> "parse_github_url", kind |-> "shorthand",
                    input |-> input, pre |-> pre, owner |-> owner,
                    repo |-> repo, ret |-> parse_github_url(input)]
    /\ UNCHANGED pureFrame

ParseOtherRef ==
    /\ fn = NoCall
    /\ \E core \in OtherRefs, lead \in Leads, trail \in Trails :
         LET input == lead \o core \o trail
         IN  fn' = [name |-> "parse_github_url", kind |-> "other",
                    input |-> input, core |-> core,
                    ret |-> parse_github_url(input)]
    /\ UNCHANGED pureFrame

\* References with white space before the trailing slash: a path, a
\* shorthand and a GitHub URL
SpacedRefs ==
    {<<"/", "p", "/", "q">>, <<"o", "/", "r">>, GhPrefix \o <<"o", "/", "r">>}

ParseSpacedRef ==
    /\ fn = NoCall
    /\ \E core \in SpacedRefs :
         LET input == core \o <<" ">> \o Slash
         IN  fn' = [name |-> "parse_github_url", kind |-> "spaced",
                    input |-> input, core |-> core,
                    ret |-> parse_github_url(input)]
    /\ UNCHANGED pureFrame

\* str::strip_prefix(pre): Some(the rest) when the prefix is there
StripPrefix(s, pre) ==
    IF StartsWith(s, pre) THEN Some(Skip(s, Len(pre))) ELSE None

\* str::trim_matches(c): the character is removed from both ends as often
\* as it is there
RECURSIVE TrimMatches(_, _)
TrimMatches(s, c) ==
    IF s # << >> /\ Head(s) = c THEN TrimMatches(Tail(s), c)
    ELSE IF s # << >> /\ s[Len(s)] = c
    THEN TrimMatches(SubSeq(s, 1, Len(s) - 1), c)
    ELSE s

Dashes == <<"-", "-", "-">>
NameKey == <<"n", "a", "m", "e", ":">>
DescriptionKey == <<"d", "e", "s", "c", "r", "i", "p", "t", "i", "o", "n", ":">>

\* a marker test that does not trim the line
IsFrontmatterMarker_Untrimmed(line) == line = Dashes

\* installer.rs 971, 978-979: the line, trimmed, is "---"
IsFrontmatterMarker(line) == Trim(line) = Dashes

\* installer.rs 984, 986: v.trim().trim_matches('"')
FieldValue(v) == TrimMatches(Trim(v), "\"")

SkillMdErr(reason) == [ok |-> FALSE, reason |-> reason]
SkillMdOk(name, desc) == [ok |-> TRUE, name |-> name, description |-> desc]

\* installer.rs 976-993: the loop over the lines after the first, from the
\* k-th line on, and what follows it
RECURSIVE ScanFrontmatter(_, _, _, _)
ScanFrontmatter(lines, k, name, desc) ==
    IF k > Len(lines) THEN SkillMdErr("invalid_frontmatter")
    ELSE LET l == Trim(lines[k])
         IN  IF IsFrontmatterMarker(lines[k])
             THEN IF name.some THEN SkillMdOk(name.val, desc)
                  ELSE SkillMdErr("missing_name")
             ELSE IF StripPrefix(l, NameKey).some
             THEN ScanFrontmatter(lines, k + 1,
                      Some(FieldValue(StripPrefix(l, NameKey).val)), desc)
             ELSE IF StripPrefix(l, DescriptionKey).some
             THEN ScanFrontmatter(lines, k + 1, name,
                      Some(FieldValue(StripPrefix(l, DescriptionKey).val)))
             ELSE ScanFrontmatter(lines, k + 1, name, desc)

\* installer.rs 968-994: parse_skill_md_with_reason.  file.readable:
\* read_to_string returns Ok; file.lines: text.lines().
parse_skill_md_with_reason(file) ==
    IF ~file.readable THEN SkillMdErr("read_failed")
    ELSE IF file.lines = << >> \/ ~IsFrontmatterMarker(file.lines[1])
    THEN SkillMdErr("invalid_frontmatter")
    ELSE ScanFrontmatter(file.lines, 2, None, None)

\* the lines of the descriptors that are parsed, each with what it is: a
\* marker, a name or a description with its value, or neither
MdLine(text, field, val) == [text |-> text, field |-> field, val |-> val]
MdLines ==
    {MdLine(Dashes, "marker", << >>),
     MdLine(Dashes \o <<" ">>, "marker", << >>),
     MdLine(NameKey \o <<" ", "x">>, "name", <<"x">>),
     MdLine(<<" ">> \o NameKey \o <<"\"", "y", "\"", " ">>, "name", <<"y">>),
     MdLine(DescriptionKey \o <<" ", "d">>, "description", <<"d">>),
     MdLine(<<"a">> \o NameKey \o <<" ", "z">>, "other", << >>),
     MdLine(<<"-", "-", "-", "-">>, "other", << >>),
     MdLine(<< >>, "other", << >>)}

\* the longest descriptor, in lines
MaxLines == 4

MdFiles == UNION {[1..n -> MdLines] : n \in 0..MaxLines}

CallParseSkillMd ==
    /\ fn = NoCall
    /\ \E ls \in MdFiles, readable \in BOOLEAN :
         /\ ~readable => ls = << >>
         /\ fn' = [name |-> "parse_skill_md_with_reason", lines |-> ls,
                   readable |-> readable,
                   ret |-> parse_skill_md_with_reason(
                              [readable |-> readable,
                               lines |-> [k \in DOMAIN ls |-> ls[k].text]])]
    /\ UNCHANGED pureFrame

----------------------------------------------------------------------------
(* The specification of the git cache under concurrent callers *)

NextCache ==
    \/ \E p \in Procs : CallCloneToCache(p) /\ UNCHANGED storeVars
    \/ \E p \in Procs : AcquireLock(p) /\ UNCHANGED storeVars
    \/ \E p \in Procs : CheckFresh(p) /\ UNCHANGED storeVars
    \/ \E p \in Procs : Fetch(p) /\ UNCHANGED storeVars
    \/ \E p \in Procs : Reset(p) /\ UNCHANGED storeVars
    \/ \E p \in Procs : WriteMeta(p) /\ UNCHANGED storeVars
    \/ \E p \in Procs : CopyOutDone(p) /\ UNCHANGED storeVars
    \/ \E p \in Procs : ErrReturned(p) /\ UNCHANGED storeVars
    \/ Tick /\ UNCHANGED storeVars

\* any configured TTL, nothing cached, nothing installed
InitAnyTtl == InitCache /\ InitStore /\ InitPure

SpecCache == InitAnyTtl /\ [][NextCache]_vars

----------------------------------------------------------------------------
(* Properties of the git cache (SpecCache) *)

\* the step in which caller p decides between the cached clone and a fetch
CheckStep(p) == acq[p].pc = "check" /\ acq'[p].pc # "check"

\* the marker of entry e is valid: it parses and records a time and a head
ValidMarker(e) == e.meta.kind = "ok" /\ e.meta.head # NoHead

C4_ReuseIffFresh ==
    [][\A p \in Procs :
          CheckStep(p) =>
              LET e == cache[acq[p].key]
                  reuse == acq'[p].pc = "copy"
              IN  /\ reuse <=> (/\ e.dir = "clone"
                                /\ ValidMarker(e)
                                /\ now - e.meta.last_fetched_ms
                                       < TtlMs(ttl_secs))
                  /\ reuse => /\ acq'[p].fetches = 0
                              /\ acq'[p].rev = e.meta.head
                              /\ cache' = cache
                  /\ ~reuse => acq'[p].pc = "fetch1"]_vars

\* an acquire has gone on to a fetch although the clone and a valid marker
\* are there: the marker has just expired
C4_Witness ==
    \E p \in Procs :
        LET e == cache[acq[p].key]
        IN  /\ acq[p].pc = "fetch1"
            /\ e.dir = "clone"
            /\ ValidMarker(e)
            /\ now - e.meta.last_fetched_ms = TtlMs(ttl_secs)

\* C5, as the specification states it: an acquire that has returned an
\* error has seen the fetch capability fail twice.
C5_ErrOnlyAfterTwoFailures ==
    \A p \in Procs : acq[p].pc = "failed" => acq[p].fails = 2

\* C5, amended: an acquire returns an error when the cache root cannot be
\* resolved or created, or when the fetch capability failed twice; in every
\* other case it returns the directory with a resolved revision, after at
\* most one failed fetch.
C5_ErrOnlyAfterRootOrTwoFailures ==
    \A p \in Procs :
        /\ acq[p].pc = "failed" =>
               \/ acq[p].rootErr /\ acq[p].fetches = 0
               \/ acq[p].fails = 2 /\ acq[p].fetches = 2
        /\ acq[p].pc = "copy" =>
               /\ acq[p].rev \in Revs
               /\ acq[p].fails <= 1

\* an acquire has returned the error of the retry
C5_Witness ==
    \E p \in Procs : acq[p].pc = "failed" /\ acq[p].fails = 2

\* C6: under any interleaving of acquires, of the same key or not, at most
\* one caller is between its freshness check and the end of its fetch and
\* marker write, and that caller holds the lock.
C6_Serialized ==
    /\ Cardinality({p \in Procs : acq[p].pc \in Critical}) <= 1
    /\ \A p \in Procs : acq[p].pc \in Critical => git_cache_lock = p

\* one caller is fetching while another, after a different key, waits for
\* the lock
C6_Witness ==
    \E p, q \in Procs :
        /\ acq[p].pc \in {"fetch1", "fetch2"}
        /\ acq[q].pc = "lock"
        /\ acq[q].key # acq[p].key

\* the step in which caller q runs clone_or_pull or the cache reset
RefreshStep(q) ==
    /\ acq[q].pc \in {"fetch1", "reset", "fetch2"}
    /\ acq'[q] # acq[q]

\* C7: no acquire runs its fetch or its cache reset on a cache directory
\* while another caller is still copying out of it.
C7_NoRefreshDuringCopyOut ==
    [][\A q \in Procs :
          RefreshStep(q) =>
              \A p \in Procs \ {q} :
                  ~(acq[p].pc = "copy" /\ acq[p].key = acq[q].key)]_vars

----------------------------------------------------------------------------
(* The specification of the canonical store: one command at a time *)

Next ==
    \/ InstallLocal /\ UNCHANGED fn
    \/ InstallGitStart /\ UNCHANGED fn
    \/ InstallGitCopy /\ UNCHANGED fn
    \/ AcquireFailed /\ UNCHANGED fn
    \/ UpdateStart /\ UNCHANGED fn
    \/ UpdateCopyOut /\ UNCHANGED fn
    \/ UpdateRemoveOld /\ UNCHANGED fn
    \/ UpdateRename /\ UNCHANGED fn
    \/ UpdateFallbackCopy /\ UNCHANGED fn
    \/ UpdateFallbackCleanup /\ UNCHANGED fn
    \/ UpdateRecord /\ UNCHANGED fn
    \/ UpdateSyncTarget /\ UNCHANGED fn
    \/ UpdateFinish /\ UNCHANGED fn
    \/ SyncSkillToTool /\ UNCHANGED fn
    \/ AcquireLock(Caller) /\ UNCHANGED storeVars
    \/ CheckFresh(Caller) /\ UNCHANGED storeVars
    \/ Fetch(Caller) /\ UNCHANGED storeVars
    \/ Reset(Caller) /\ UNCHANGED storeVars
    \/ WriteMeta(Caller) /\ UNCHANGED storeVars
    \/ Return /\ UNCHANGED fn
    \/ Tick /\ UNCHANGED storeVars

\* the store runs with caching on: a clone fetched in this second is fresh,
\* one fetched a second ago is stale
StoreTtlSecs == 1

Init == InitAnyTtl /\ ttl_secs = StoreTtlSecs

Spec == Init /\ [][Next]_vars

\* The acquires with panics, and with the scheduling the liveness of the
\* lock rests on: a step of a call that can be taken is taken (each call of
\* the fetch capability ends), and a call that waits for a lock that is
\* free again and again gets it.
\* installer.rs 874-893: a call of clone_to_cache for the repository of the
\* store
CallAcquire(p) ==
    /\ acq[p].pc = "idle"
    /\ \E rootOk \in BOOLEAN :
          acq' = [acq EXCEPT ![p] = EnterCloneToCache(RepoKey, rootOk)]
    /\ UNCHANGED <<now, ttl_secs, cache, git_cache_lock, markerBy>>

NextAcquire ==
    \/ \E p \in Procs : CallAcquire(p) /\ UNCHANGED storeVars
    \/ \E p \in Procs : AcquireLock(p) /\ UNCHANGED storeVars
    \/ \E p \in Procs : CheckFresh(p) /\ UNCHANGED storeVars
    \/ \E p \in Procs : Fetch(p) /\ UNCHANGED storeVars
    \/ \E p \in Procs : Reset(p) /\ UNCHANGED storeVars
    \/ \E p \in Procs : WriteMeta(p) /\ UNCHANGED storeVars
    \/ \E p \in Procs : CopyOutDone(p) /\ UNCHANGED storeVars
    \/ \E p \in Procs : ErrReturned(p) /\ UNCHANGED storeVars
    \/ \E p \in Procs : Panic(p) /\ UNCHANGED storeVars

Fairness ==
    \A p \in Procs :
        /\ SF_vars(AcquireLock(p) /\ UNCHANGED storeVars)
        /\ WF_vars(CheckFresh(p) /\ UNCHANGED storeVars)
        /\ WF_vars(Fetch(p) /\ UNCHANGED storeVars)
        /\ WF_vars(Reset(p) /\ UNCHANGED storeVars)
        /\ WF_vars(WriteMeta(p) /\ UNCHANGED storeVars)

SpecAcquire == Init /\ [][NextAcquire]_vars /\ Fairness

\* a source_type the installer does not write: the registry takes any text
\* (skill_store.rs 18: source_type TEXT NOT NULL)
OtherSourceType == "archive"
OtherRef == "x"

\* the store with one record written through upsert_skill by a caller other
\* than the installs, for a canonical directory that exists
InitRegistered ==
    /\ InitCache
    /\ ttl_secs = StoreTtlSecs
    /\ InitPure
    /\ central = [n \in Names |-> IF n = "a" THEN FullTree(1) ELSE NoDir]
    /\ skills = UpsertSkill([i \in Ids |-> NoRecord],
                            SkillRecord("id1", "a", OtherSourceType, OtherRef,
                                        NoRev,
                                        compute_content_hash(FullTree(1)),
                                        0, 0))
    /\ targets = {}
    /\ tdirs = [i \in Ids |-> [t \in Tools |-> NoDir]]
    /\ op = IdleOp
    /\ nops = 0

SpecRegistered == InitRegistered /\ [][Next]_vars

----------------------------------------------------------------------------
(* Properties of the canonical store (Spec) *)

Installs == {"install_local", "install_git"}

\* what a reader of a canonical directory can take for one state of a
\* skill: no directory, or a complete copy of one version
Consistent(t) == t = NoDir \/ Complete(t)

\* C1: at every step of an update, the fallback after a failed rename
\* included, a reader of the canonical directory that saw one consistent
\* state before the step sees one after it, never part of a tree.
C1_UpdateAtomic ==
    [][(op.kind = "update" /\ op.pc \notin {"idle", "done"}
           /\ Consistent(central[op.name]))
          => Consistent(central'[op.name])]_vars

\* C2: an install, of any of the three kinds, into a destination that
\* exists returns an error and leaves the canonical root, the skills table
\* and the targets as they were.
C2_InstallIntoExistingFails ==
    [][\A n \in Names :
          (/\ op.pc = "idle"
           /\ op'.kind \in Installs
           /\ op'.name = n
           /\ central[n] # NoDir)
              => /\ op'.pc = "done"
                 /\ op'.res = "err"
                 /\ UNCHANGED <<central, skills, targets, tdirs, cache>>]_vars

\* an install from a git repository has found its destination there and
\* has returned the error
C2_Witness ==
    /\ op.pc = "done"
    /\ op.kind = "install_git"
    /\ op.existed
    /\ op.res = "err"
    /\ Complete(central[op.name])

\* C8: after an install attempt, whatever failed in it, the destination it
\* was to create is absent, or it is a complete copy of the source and has
\* a record.
C8_NoPartialInstall ==
    (op.pc = "done" /\ op.kind \in Installs /\ ~op.existed)
        => \/ central[op.name] = NoDir
           \/ /\ Complete(central[op.name])
              /\ \E i \in Ids :
                    Present(i) /\ skills[i].central_path = op.name

\* C9: a round of the update's loop over the targets never ends the
\* update: it goes on to the rest of the targets, and it leaves its own
\* target untouched, or re-synced with a row that says ok, or with a row
\* that records the failure in status and last_error.
C9_SyncFailureIsolated ==
    [][(op.pc = "sync" /\ op.queue # << >>)
          => LET t == Head(op.queue)
                 i == op.id
             IN  /\ op'.pc = "sync"
                 /\ op'.queue = Tail(op.queue)
                 /\ \/ UNCHANGED <<targets, tdirs>>
                    \/ /\ tdirs'[i][t] = central[op.name]
                       /\ get_skill_target(targets', i, t).status = "ok"
                    \/ /\ get_skill_target(targets', i, t).status # "ok"
                       /\ get_skill_target(targets', i, t).last_error
                              # NoError]_vars

\* C10: whenever no command is in progress, whatever the commands so far
\* returned, the central_path of every record exists.
C10_RecordHasDirectory ==
    op.pc \in {"idle", "done"}
        => \A i \in Ids :
              Present(i) => central[skills[i].central_path] # NoDir

\* the step in which update_managed_skill_from_source is called for id i
UpdateCalled(i) == op.pc = "idle" /\ op'.kind = "update" /\ op'.id = i

\* C11: an update of an id that has no record, or whose record's canonical
\* directory does not exist, returns an error at once, and the skills
\* table, the canonical root, the git cache, the target rows and the target
\* directories are as they were.
C11_UpdateNeedsRecordAndDirectory ==
    [][\A i \in Ids :
          (/\ UpdateCalled(i)
           /\ \/ skills[i] = NoRecord
              \/ central[skills[i].central_path] = NoDir)
              => /\ op'.pc = "done"
                 /\ op'.res = "err"
                 /\ UNCHANGED <<skills, central, cache, acq, targets,
                                tdirs>>]_vars

\* an update has found the record but not its canonical directory, and has
\* returned the error before it built anything
C11_Witness ==
    /\ op.pc = "done"
    /\ op.kind = "update"
    /\ op.res = "err"
    /\ skills[op.id] # NoRecord
    /\ central[skills[op.id].central_path] = NoDir
    /\ op.staging = NoDir
    /\ op.new_revision = NoRev

\* the update is past a failed rename: in its fallback copy, or beyond it
AfterFallback ==
    /\ op.kind = "update"
    /\ op.pc = "fallback" \/ op.copied = NFiles

ResolvingSource ==
    /\ op.pc \in {"idle", "acquire"}
    /\ op'.kind = "update"
    /\ op'.pc \in {"acquire", "remove", "done"}

\* C30: while an update resolves its source and builds the staging
\* directory, the canonical root, the skills table, the target rows and the
\* target directories stay as they are; and an update that ends there, for
\* a failed fetch, a missing subpath, a missing local source or a failed
\* copy into the staging directory, returns an error.
C30_SourceFailureLeavesAll ==
    [][ResolvingSource
          => /\ UNCHANGED <<central, skills, targets, tdirs>>
             /\ op'.pc = "done" => op'.res = "err"]_vars

\* an update of a git record has fetched the clone, has failed in the copy
\* into the staging directory, which it leaves partly written, and has
\* returned the error with the canonical directory and the record as they
\* were at the install
C30_Witness ==
    /\ op.kind = "update"
    /\ op.pc = "done"
    /\ op.res = "err"
    /\ op.new_revision # NoRev
    /\ op.staging \in Trees
    /\ ~Complete(op.staging)
    /\ Complete(central[op.name])
    /\ skills[op.id].updated_at = skills[op.id].created_at
    /\ \E t \in Tools : get_skill_target(targets, op.id, t) # NoTarget

\* the fields of a record that an update leaves alone
Identity(rec) ==
    <<rec.id, rec.name, rec.source_type, rec.source_ref, rec.central_path,
      rec.created_at>>

\* record new is record old rewritten by update o over directory t
RewrittenBy(old, new, o, t) ==
    /\ Identity(new) = Identity(old)
    /\ new.updated_at = o.now
    /\ new.source_revision = IF o.new_revision # NoRev
                              THEN o.new_revision
                              ELSE old.source_revision
    /\ new.content_hash = compute_content_hash(t)

\* C32: an update writes to the skills table in one step only, after the
\* swap, when the canonical directory is a complete copy of the new content
\* (of the fetched revision, for a git record); the step rewrites the
\* record of the update and no other: updated_at is the update's time,
\* source_revision the fetched revision or else the old one, content_hash
\* that of the canonical directory, and id, name, source_type, source_ref,
\* central_path and created_at are as before.  The record of an update
\* that returns success is that record.
C32_RecordRewrittenAfterSwap ==
    [][op.kind = "update"
          => /\ skills' # skills
                => /\ op.pc = "record"
                   /\ central' = central
                   /\ Complete(central[op.name])
                   /\ op.new_revision # NoRev
                         => central[op.name] = FullTree(op.new_revision)
                   /\ \A j \in Ids \ {op.id} : skills'[j] = skills[j]
                   /\ RewrittenBy(skills[op.id], skills'[op.id], op,
                                  central[op.name])
             /\ (op.pc # "done" /\ op'.pc = "done" /\ op'.res = "ok")
                => /\ skills'[op.id].updated_at = op.now
                   /\ skills'[op.id].content_hash
                         = compute_content_hash(central'[op.name])
                   /\ op.new_revision # NoRev
                         => skills'[op.id].source_revision
                               = op.new_revision]_vars

\* an update of a git record, at a later time than its install, has
\* returned success with the record and the canonical directory at the
\* revision it fetched
C32_Witness ==
    /\ op.kind = "update"
    /\ op.pc = "done"
    /\ op.res = "ok"
    /\ op.new_revision # NoRev
    /\ skills[op.id].source_type = "git"
    /\ skills[op.id].source_revision = op.new_revision
    /\ skills[op.id].content_hash = FullTree(op.new_revision)
    /\ central[op.name] = FullTree(op.new_revision)
    /\ skills[op.id].updated_at = op.now
    /\ skills[op.id].created_at # op.now

\* the lock is free
Released == git_cache_lock \in {NoProc, Poisoned}

C36_NoStagingLeftBehind ==
    (op.kind = "update" /\ op.pc = "done") => op.staging = NoDir

\* the tools of a sequence of tools
ToolSet(q) == {q[x] : x \in DOMAIN q}

\* C13: when an update has returned success, every target of the skill
\* whose tool was found installed and whose mode is copy, or whose tool is
\* cursor, holds the new canonical content and has a row with status ok, no
\* last_error and synced_at set; and no step of an update changes the row
\* or the directory of a symlink-mode target of a tool other than cursor.
C13_CopyTargetsResynced ==
    [][/\ (op'.kind = "update" /\ op'.pc = "done" /\ op'.res = "ok")
          => \A t \in Tools :
                LET row == get_skill_target(targets', op'.id, t)
                IN  (/\ row # NoTarget
                     /\ t \notin op'.skipped
                     /\ row.mode = "copy" \/ t = "cursor")
                        => /\ tdirs'[op'.id][t] = central'[op'.name]
                           /\ row.status = "ok"
                           /\ row.last_error = NoError
                           /\ row.synced_at.some
       /\ op'.kind = "update"
          => \A t \in Tools :
                LET row == get_skill_target(targets, op'.id, t)
                IN  (row.mode = "symlink" /\ t # "cursor")
                       => /\ get_skill_target(targets', op'.id, t) = row
                          /\ tdirs'[op'.id][t] = tdirs[op'.id][t]]_vars

\* an update to another version has returned success after it re-synced a
\* target
C13_Witness ==
    /\ op.kind = "update"
    /\ op.pc = "done"
    /\ op.res = "ok"
    /\ op.updated_targets # << >>
    /\ \E t \in ToolSet(op.updated_targets) :
          /\ tdirs[op.id][t] = central[op.name]
          /\ get_skill_target(targets, op.id, t).synced_at = AtTime(op.now)
          /\ skills[op.id].created_at # op.now

\* C14: the round of the update's loop that finds its target's tool not
\* installed leaves every row and every target directory as it was, adds
\* nothing to updated_targets and goes on with the rest of the targets; an
\* update that has returned lists no skipped tool in updated_targets.
C14_NotInstalledSkipped ==
    [][/\ (/\ op.pc = "sync"
           /\ op.queue # << >>
           /\ Head(op.queue) \in op'.skipped)
          => /\ UNCHANGED <<targets, tdirs>>
             /\ op'.updated_targets = op.updated_targets
             /\ op'.pc = "sync"
             /\ op'.queue = Tail(op.queue)
       /\ (op'.kind = "update" /\ op'.pc = "done")
          => op'.skipped \cap ToolSet(op'.updated_targets) = {}]_vars

\* an update to another version has returned success after it skipped a
\* copy-mode target, which holds the old content
C14_Witness ==
    /\ op.kind = "update"
    /\ op.pc = "done"
    /\ op.res = "ok"
    /\ \E t \in op.skipped :
          /\ get_skill_target(targets, op.id, t).mode = "copy"
          /\ Complete(tdirs[op.id][t])
          /\ tdirs[op.id][t] # central[op.name]

\* C16: no two records have the same central_path; and an install that
\* has copied its source to a destination that a record of another id
\* names fails in upsert_skill, and leaves the skills table and the target
\* rows as they were.
C16_CentralPathUnique ==
    [][/\ \A i, j \in Ids :
             (i # j /\ skills'[i] # NoRecord /\ skills'[j] # NoRecord)
                => skills'[i].central_path # skills'[j].central_path
       /\ \A n \in Names :
             (/\ op.pc # "done"
              /\ op'.pc = "done"
              /\ op'.kind \in Installs
              /\ op'.name = n
              /\ central[n] = NoDir
              /\ Complete(central'[n])
              /\ \E j \in Ids : /\ skills[j] # NoRecord
                                 /\ skills[j].central_path = n)
                 => /\ op'.res = "err"
                    /\ UNCHANGED <<skills, targets>>]_vars

\* an install has copied its source to the central_path of a record whose
\* directory an update had lost, and has returned an error
C16_Witness ==
    /\ op.pc = "done"
    /\ op.kind \in Installs
    /\ op.res = "err"
    /\ ~op.existed
    /\ Complete(central[op.name])
    /\ \E j \in Ids : /\ skills[j] # NoRecord
                       /\ skills[j].central_path = op.name
                       /\ skills[j].content_hash # central[op.name]

\* C17: an install whose source does not exist returns an error, and the
\* canonical root and the skills table are as they were.
C17_MissingSourceFails ==
    [][(/\ op.pc # "done"
        /\ op'.pc = "done"
        /\ op'.kind \in Installs
        /\ op'.no_source)
          => /\ op'.res = "err"
             /\ UNCHANGED <<central, skills>>]_vars

\* an install from a git repository has fetched the clone, has not found
\* its subpath in it, and has returned the error
C17_Witness ==
    /\ op.pc = "done"
    /\ op.kind = "install_git"
    /\ op.no_source
    /\ op.res = "err"
    /\ central[op.name] = NoDir
    /\ cache[RepoKey].dir = "clone"

----------------------------------------------------------------------------
(* The specification of the registry *)

NextRegistry ==
    \/ CallUpsertSkill
    \/ CallDeleteSkill
    \/ CallUpsertSkillTarget
    \/ CallDeleteSkillTarget

SpecRegistry == Init /\ [][NextRegistry]_vars

\* C15: after any calls of the registry, no skill and tool have two rows;
\* and an upsert_skill_target for a pair that has a row leaves the pair
\* with one row, the record of the call: its target_path, mode, status,
\* last_error and synced_at.
C15_OneRowPerPair ==
    /\ \A i \in Ids, t \in Tools : Cardinality(RowsOf(targets, i, t)) <= 1
    /\ (fn.name = "upsert_skill_target" /\ fn.ret = "replaced")
          => RowsOf(targets, fn.record.skill_id, fn.record.tool)
                = {fn.record}

\* the last of the calls was an upsert_skill_target for a pair that had a
\* row, and the row is now the record of the call
C15_Witness ==
    /\ fn.name = "upsert_skill_target"
    /\ fn.ret = "replaced"
    /\ fn.record \in targets
    /\ fn.record.mode = "symlink"
    /\ fn.record.status = "error"
    /\ nops = MaxCalls

\* C39: in every state of the registry each target row is the row of a
\* skill that has a record; delete_skill(id) removes the record and every
\* target row of id and no other row; and upsert_skill_target for an id
\* without a record fails and leaves the rows as they were.
C39_TargetRowsHaveSkill ==
    /\ [](\A r \in targets : skills[r.skill_id] # NoRecord)
    /\ [][(fn'.name = "delete_skill" /\ nops' # nops)
              => /\ skills'[fn'.id] = NoRecord
                 /\ targets' = {r \in targets : r.skill_id # fn'.id}]_vars
    /\ [][(/\ fn'.name = "upsert_skill_target"
           /\ nops' # nops
           /\ skills[fn'.record.skill_id] = NoRecord)
              => /\ fn'.ret = "err"
                 /\ targets' = targets]_vars

\* a delete_skill has just removed a record together with its target rows,
\* the record of another skill is still there, and an upsert_skill_target
\* for the deleted id would now fail
C39_Witness ==
    /\ fn.name = "delete_skill"
    /\ fn.removed > 0
    /\ skills[fn.id] = NoRecord
    /\ \E j \in Ids : j # fn.id /\ skills[j] # NoRecord
    /\ ~UpsertSkillTargetAllowed(skills, fn.id)

----------------------------------------------------------------------------
(* The specification of the pure functions *)

NextPure ==
    \/ CallRepoCacheKey
    \/ ParseGithubRef
    \/ ParseShorthandRef
    \/ ParseOtherRef
    \/ ParseSpacedRef
    \/ CallParseSkillMd

SpecPure == Init /\ [][NextPure]_vars

\* C12: for every clone_url, the key of a present branch, the empty string
\* included, differs from the key of the absent branch.
C12_AbsentBranchKeyedApart ==
    (fn.name = "repo_cache_key" /\ fn.branch.some)
        => fn.ret # repo_cache_key(fn.clone_url, None)

\* https://github.com/<owner>/<repo>.git
CanonicalCloneUrl(owner, repo) == GhPrefix \o owner \o Slash \o repo \o DotGit

C20_OtherUnchanged ==
    (fn.name = "parse_github_url" /\ fn.kind = "other")
        => fn.ret = ParsedGitSource(fn.input, None, None)

\* C20, amended: a reference that is no GitHub form comes back as the
\* clone_url without the white space around it and without its trailing
\* slashes, with no branch and no subpath.
C20_OtherTrimmed ==
    (fn.name = "parse_github_url" /\ fn.kind = "other")
        => fn.ret = ParsedGitSource(fn.core, None, None)

\* a local path given with a trailing slash has come back without it
C20_Witness ==
    /\ fn.name = "parse_github_url"
    /\ fn.kind = "other"
    /\ fn.core = <<"/", "p", "/", "q">>
    /\ fn.input = fn.core \o Slash
    /\ fn.ret.clone_url = fn.core

\* C40: the clone_url that parse_github_url returns is a fixed point:
\* parsed again, it comes back as the same clone_url with no branch and no
\* subpath.
C40_CloneUrlIsFixedPoint ==
    fn.name = "parse_github_url"
        => parse_github_url(fn.ret.clone_url)
              = ParsedGitSource(fn.ret.clone_url, None, None)

\* C40, the part that holds: the clone_url is a fixed point whenever it
\* does not end in white space
C40_FixedPointUnlessSpaced ==
    (fn.name = "parse_github_url"
         /\ TrimEnd(fn.ret.clone_url) = fn.ret.clone_url)
        => parse_github_url(fn.ret.clone_url)
              = ParsedGitSource(fn.ret.clone_url, None, None)

\* the characters of the safe class: letters, digits, '-', '_' and '.'
SafeChars == AsciiAlphanumeric \cup {"-", "_", "."}

AllIn(x, chars) == \A k \in DOMAIN x : x[k] \in chars

\* the input, which has none of the github.com prefixes, was taken for an
\* owner/repo shorthand: it came back as an https://github.com/ clone_url
TreatedAsShorthand == StartsWith(fn.ret.clone_url, GhPrefix)

\* C21: an input that is taken for owner/repo shorthand has no "://", no
\* '@' and no ':', and its first two segments are made of letters, digits,
\* '-', '_' and '.' only; and an scp-like remote git@github.com:owner/repo
\* comes back as the remote it is, not as an https://github.com/ URL, and
\* with no branch and no subpath.
C21_ShorthandOnlyWhenSafe ==
    (fn.name = "parse_github_url" /\ fn.kind = "shorthand")
        => /\ TreatedAsShorthand
              => /\ ~Contains(fn.input, <<":", "/", "/">>)
                 /\ ~Contains(fn.input, <<"@">>)
                 /\ ~Contains(fn.input, <<":">>)
                 /\ Len(Split(fn.input, "/")) >= 2
                 /\ AllIn(Split(fn.input, "/")[1], SafeChars)
                 /\ AllIn(Split(fn.input, "/")[2], SafeChars)
           /\ fn.pre = SshPrefix
              => /\ ~TreatedAsShorthand
                 /\ StartsWith(fn.ret.clone_url, SshPrefix)
                 /\ fn.ret.branch = None
                 /\ fn.ret.subpath = None

\* an owner and a repository with '-', digits and ".git" were taken for
\* shorthand
C21_Witness ==
    /\ fn.name = "parse_github_url"
    /\ fn.kind = "shorthand"
    /\ fn.owner = <<"o", "-", "1">>
    /\ fn.repo = <<"r">> \o DotGit
    /\ TreatedAsShorthand
    /\ fn.ret.clone_url = CanonicalCloneUrl(fn.owner, <<"r">>)

\* C26: the retry of a failed fetch runs against a cache directory that is
\* not there: the directory and its marker file were deleted, and the
\* retry sees nothing the failed fetch left.
C26_RetryFromCleanSlate ==
    \A p \in Procs :
        acq[p].pc = "fetch2" => cache[acq[p].key] = AbsentEntry

\* the step in which clone_to_cache returns Ok after a fetch
ReturnsFetched(p) == acq[p].pc = "meta" /\ acq'[p].pc = "copy"

\* C27: when an acquire returns success after a fetch, the marker file of
\* its entry records the revision it returns as head and the time of the
\* return as last_fetched_ms.
C27_MarkerRecordsFetch ==
    [][\A p \in Procs :
          ReturnsFetched(p)
              => cache'[acq[p].key].meta
                    = RepoCacheMeta(now, acq'[p].rev)]_vars

\* C28, as the specification states it: with a TTL of zero or less, every
\* acquire that returns has called the fetch capability.
C28_EveryAcquireFetches ==
    [][\A p \in Procs :
          (ttl_secs <= 0 /\ acq'[p].pc \in {"copy", "failed"})
              => acq'[p].fetches >= 1]_vars

\* C28, amended: with a TTL of zero or less, an acquire that has the cache
\* root goes from its freshness check on to the fetch, whatever the entry
\* and its marker, and returns only after it has called the fetch
\* capability; the acquire that cannot resolve or create the cache root
\* returns its error with no fetch.
C28_NoCacheHitAtZeroTtl ==
    [][\A p \in Procs :
          ttl_secs <= 0
              => /\ CheckStep(p) => acq'[p].pc = "fetch1"
                 /\ acq'[p].pc = "copy" => acq'[p].fetches >= 1
                 /\ acq'[p].pc = "failed"
                       => acq'[p].fetches >= 1 \/ acq'[p].rootErr]_vars

\* with a TTL of zero or less an acquire is at its fetch although the clone
\* is there with a valid marker, written in the same second
C28_Witness ==
    \E p \in Procs :
        /\ ttl_secs <= 0
        /\ acq[p].pc = "fetch1"
        /\ cache[acq[p].key].dir = "clone"
        /\ ValidMarker(cache[acq[p].key])
        /\ cache[acq[p].key].meta.last_fetched_ms = now

\* the descriptor that was parsed could be read and has, first, a marker,
\* and a marker after it: ClosingAt is the line of that one
MdCall == fn.name = "parse_skill_md_with_reason"
HasOpening == fn.lines # << >> /\ fn.lines[1].field = "marker"
Closings == {k \in 2..Len(fn.lines) : fn.lines[k].field = "marker"}
ClosingAt == CHOOSE k \in Closings : \A j \in Closings : k <= j

\* the lines with a field between the two markers
FieldLines(field) ==
    {k \in 2..(ClosingAt - 1) : fn.lines[k].field = field}
LastOf(ks) == CHOOSE k \in ks : \A j \in ks : j <= k

\* C25: a descriptor that cannot be read fails with read_failed; one whose
\* first line is no "---", or that has no "---" after it, fails with
\* invalid_frontmatter, with a name or not; one with both and no name:
\* between them fails with missing_name; any other succeeds, with the
\* value of its name: line and of its description: line if it has one.
C25_DescriptorValidation ==
    MdCall
        => IF ~fn.readable THEN fn.ret = SkillMdErr("read_failed")
           ELSE IF ~HasOpening \/ Closings = {}
           THEN fn.ret = SkillMdErr("invalid_frontmatter")
           ELSE IF FieldLines("name") = {}
           THEN fn.ret = SkillMdErr("missing_name")
           ELSE /\ fn.ret.ok
                /\ fn.ret.name = fn.lines[LastOf(FieldLines("name"))].val
                /\ fn.ret.description
                      = IF FieldLines("description") = {} THEN None
                        ELSE Some(fn.lines[LastOf(
                                     FieldLines("description"))].val)

\* a descriptor with a marker that has a space after it, a quoted name and
\* a description has been parsed
C25_Witness ==
    /\ MdCall
    /\ fn.ret = SkillMdOk(<<"y">>, Some(<<"d">>))
    /\ fn.lines[1].text = Dashes \o <<" ">>
    /\ Len(fn.lines) = 4

----------------------------------------------------------------------------
(* The discovery scan: onboarding.rs.  Paths are sequences of components. *)

Home == <<"home">>

\* an adapter's relative_detect_dir and relative_skills_dir under the home
\* directory, and the canonical root
DetectDir(t) == Home \o <<t>>
SkillsDir(t) == Home \o <<t, "skills">>
CentralRoot == Home \o <<"central">>

\* Path::components: the "." components after the first are dropped
PathComponents(p) ==
    IF p = << >> THEN << >>
    ELSE <<Head(p)>> \o SelectSeq(Tail(p), LAMBDA c : c # ".")

\* onboarding.rs 167-169: Path::starts_with compares components
is_under(path, base) ==
    LET a == PathComponents(path)
        b == PathComponents(base)
    IN  Len(b) <= Len(a) /\ SubSeq(a, 1, Len(b)) = b

\* a key that keeps the path as it is written
normalize_path_for_key_Raw(path) == path

\* onboarding.rs 177-188: the path put together again from its components
\* (a build for a system other than Windows: no to_lowercase)
normalize_path_for_key(path) == PathComponents(path)

\* str::to_ascii_lowercase on the names of tools
ToolNames == Tools \cup {"Cursor"}
to_ascii_lowercase(tool) == IF tool = "Cursor" THEN "cursor" ELSE tool

\* onboarding.rs 171-175: "{tool}\n{normalized}"
managed_target_key(tool, path) ==
    <<to_ascii_lowercase(tool), normalize_path_for_key(path)>>

\* What a tool's skills directory holds under a name: nothing, a directory
\* (content 0: one that hash_dir fails on), or a link into the canonical
\* root.
Contents == {0, 1, 2}
NoEntry == [kind |-> "absent", content |-> 0]
DirEntry(c) == [kind |-> "dir", content |-> c]
LinkEntry == [kind |-> "link", content |-> 1]
Entries == {NoEntry, LinkEntry} \cup {DirEntry(c) : c \in Contents}

NameOrder == <<"a", "b">>

DetectedSkill(t, n, e) ==
    [tool |-> t, name |-> n, path |-> SkillsDir(t) \o <<n>>,
     is_link |-> (e.kind = "link"),
     link_target |-> IF e.kind = "link" THEN Some(CentralRoot \o <<n>>)
                     ELSE None]

\* scan_tool_dir(adapter, dir): one DetectedSkill for each skill directory
\* of the tool
scan_tool_dir(home, t) ==
    LET present == SelectSeq(NameOrder,
                             LAMBDA n : home.dirs[t][n] # NoEntry)
    IN  [k \in DOMAIN present |->
            DetectedSkill(t, present[k], home.dirs[t][present[k]])]

\* hash_dir(path).ok(): the fingerprint of the content, None when hashing
\* fails
hash_dir(home, skill) ==
    LET e == home.dirs[skill.tool][skill.name]
    IN  IF e.content = 0 THEN None ELSE Some(e.content)

\* a filter that looks at the path of an instance and not at its link target
filter_detected_PathOnly(detected, exclude_root, exclude_managed_targets) ==
    IF ~exclude_root.some /\ ~exclude_managed_targets.some THEN detected
    ELSE SelectSeq(detected, LAMBDA skill :
            /\ exclude_root.some => ~is_under(skill.path, exclude_root.val)
            /\ exclude_managed_targets.some
                  => managed_target_key(skill.tool, skill.path)
                        \notin exclude_managed_targets.val)

\* onboarding.rs 135-165
filter_detected(detected, exclude_root, exclude_managed_targets) ==
    IF ~exclude_root.some /\ ~exclude_managed_targets.some THEN detected
    ELSE SelectSeq(detected, LAMBDA skill :
            /\ exclude_root.some
                  => /\ ~is_under(skill.path, exclude_root.val)
                     /\ skill.link_target.some
                           => ~is_under(skill.link_target.val,
                                        exclude_root.val)
            /\ exclude_managed_targets.some
                  => managed_target_key(skill.tool, skill.path)
                        \notin exclude_managed_targets.val)

\* a scan that takes every adapter's detection directory to be there
DetectDirExists_Always(home, t) == TRUE

\* onboarding.rs 78-80: home.join(adapter.relative_detect_dir).exists()
DetectDirExists(home, t) == home.detect[t]

\* onboarding.rs 73-89: the loop over the adapters, from the k-th on
RECURSIVE ScanAdapters(_, _, _, _)
ScanAdapters(home, k, exclude_root, exclude_managed_targets) ==
    IF k > Len(ToolOrder) THEN [scanned |-> 0, all_detected |-> << >>]
    ELSE LET t == ToolOrder[k]
             rest == ScanAdapters(home, k + 1, exclude_root,
                                  exclude_managed_targets)
         IN  IF ~DetectDirExists(home, t) THEN rest
             ELSE [scanned |-> rest.scanned + 1,
                   all_detected |->
                       filter_detected(scan_tool_dir(home, t), exclude_root,
                                       exclude_managed_targets)
                           \o rest.all_detected]

\* onboarding.rs 13-20
OnboardingVariant(home, skill) ==
    [tool |-> skill.tool, name |-> skill.name, path |-> skill.path,
     fingerprint |-> hash_dir(home, skill), is_link |-> skill.is_link,
     link_target |-> skill.link_target]

\* a count that takes a failed fingerprint for a fingerprint of its own
UniqueFingerprints_WithMissing(variants) ==
    Cardinality({variants[k].fingerprint : k \in DOMAIN variants})

\* onboarding.rs 107-111: the number of distinct fingerprints of the
\* variants that have one
UniqueFingerprints(variants) ==
    Cardinality({variants[k].fingerprint.val :
                    k \in {x \in DOMAIN variants :
                              variants[x].fingerprint.some}})

\* onboarding.rs 22-27, 112-119
OnboardingGroup(n, variants) ==
    LET uniq == IF UniqueFingerprints(variants) = 0 THEN 1
                ELSE UniqueFingerprints(variants)
    IN  [name |-> n, variants |-> variants, has_conflict |-> (uniq > 1)]

RECURSIVE SumVariants(_)
SumVariants(groups) ==
    IF groups = {} THEN 0
    ELSE LET g == CHOOSE x \in groups : TRUE
         IN  Len(g.variants) + SumVariants(groups \ {g})

PlanErr == [ok |-> FALSE]

\* a plan that groups the instances of every name, managed or not
build_onboarding_plan_in_home_AnyName(home, exclude_root, exclude_managed_targets, exclude_managed_names) ==
    LET scan == ScanAdapters(home, 1, exclude_root, exclude_managed_targets)
        kept == scan.all_detected
        variants == [k \in DOMAIN kept |-> OnboardingVariant(home, kept[k])]
        names == {variants[k].name : k \in DOMAIN variants}
        groups == {OnboardingGroup(n, SelectSeq(variants,
                                       LAMBDA v : v.name = n)) : n \in names}
    IN  IF ~home.scanOk /\ \E t \in Tools : DetectDirExists(home, t)
        THEN PlanErr
        ELSE [ok |-> TRUE, total_tools_scanned |-> scan.scanned,
              total_skills_found |-> SumVariants(groups), groups |-> groups]

\* onboarding.rs 67-133: build_onboarding_plan_in_home.  The groups come out
\* of a HashMap, in no order: a set.  A failed scan_tool_dir returns with
\* `?`.
build_onboarding_plan_in_home(home, exclude_root, exclude_managed_targets, exclude_managed_names) ==
    LET scan == ScanAdapters(home, 1, exclude_root, exclude_managed_targets)
        kept == SelectSeq(scan.all_detected, LAMBDA skill :
                    exclude_managed_names.some
                        => skill.name \notin exclude_managed_names.val)
        variants == [k \in DOMAIN kept |-> OnboardingVariant(home, kept[k])]
        names == {variants[k].name : k \in DOMAIN variants}
        groups == {OnboardingGroup(n, SelectSeq(variants,
                                       LAMBDA v : v.name = n)) : n \in names}
    IN  IF ~home.scanOk /\ \E t \in Tools : DetectDirExists(home, t)
        THEN PlanErr
        ELSE [ok |-> TRUE, total_tools_scanned |-> scan.scanned,
              total_skills_found |-> SumVariants(groups), groups |-> groups]

\* the home directories the scan is run on
Homes ==
    [detect : [Tools -> BOOLEAN], dirs : [Tools -> [Names -> Entries]],
     scanOk : BOOLEAN]

\* the exclusions it is run with: none, the canonical root, or a canonical
\* root that was set to the skills directory of a tool; no set of
\* managed (tool, path) pairs, or the keys of at most one pair, its tool and
\* path as the registry has them; no set of managed names, or one
ManagedPairs ==
    {<<"claude", SkillsDir("claude") \o <<"a">>>>,
     <<"claude", SkillsDir("claude") \o <<".", "a">>>>,
     <<"Cursor", SkillsDir("cursor") \o <<"a">>>>,
     <<"cursor", SkillsDir("cursor") \o <<"b">>>>}
RootChoices == {None, Some(CentralRoot), Some(SkillsDir("claude"))}
NameChoices == {None, Some({"a"})}

CallBuildOnboardingPlan ==
    /\ fn = NoCall
    /\ \E home \in Homes, pair \in ManagedPairs \cup {<<>>},
          noManaged \in BOOLEAN, root \in RootChoices,
          names \in NameChoices :
         /\ pair # <<>> => ~noManaged
         /\ LET managed == IF noManaged THEN None
                           ELSE IF pair = <<>> THEN Some({})
                           ELSE Some({managed_target_key(pair[1], pair[2])})
            IN  fn' = [name |-> "build_onboarding_plan", home |-> home,
                       pair |-> pair, exclude_root |-> root,
                       exclude_managed_targets |-> managed,
                       exclude_managed_names |-> names,
                       ret |-> build_onboarding_plan_in_home(home, root,
                                   managed, names)]
    /\ UNCHANGED pureFrame

NextOnboarding == CallBuildOnboardingPlan

SpecOnboarding == Init /\ [][NextOnboarding]_vars

----------------------------------------------------------------------------
(* Properties of the discovery scan (SpecOnboarding) *)

PlanBuilt == fn.name = "build_onboarding_plan" /\ fn.ret.ok

\* the variants of a plan
AllVariants(plan) ==
    UNION {{g.variants[k] : k \in DOMAIN g.variants} : g \in plan.groups}

\* the contents hash_dir can fingerprint among the directories of a group
HashableContents(home, g) ==
    {home.dirs[g.variants[k].tool][g.variants[k].name].content :
        k \in DOMAIN g.variants} \ {0}

\* C22: a name has one group at most, and a group has has_conflict exactly
\* when the directories of its variants that can be fingerprinted hold more
\* than one content: the same content in two tools gives a group without
\* conflict, two contents a group with one, and directories that cannot be
\* fingerprinted do not count.
C22_ConflictIffDistinctFingerprints ==
    PlanBuilt
        => /\ \A g, h \in fn.ret.groups : g.name = h.name => g = h
           /\ \A g \in fn.ret.groups :
                 g.has_conflict
                    <=> Cardinality(HashableContents(fn.home, g)) > 1

\* a plan with a group of two tools that disagree, and a group of a
\* fingerprinted directory and one that cannot be fingerprinted
C22_Witness ==
    /\ PlanBuilt
    /\ \E g, h \in fn.ret.groups :
          /\ g.has_conflict
          /\ Len(g.variants) = 2
          /\ ~h.has_conflict
          /\ Len(h.variants) = 2
          /\ \E k \in DOMAIN h.variants : ~h.variants[k].fingerprint.some
          /\ \E k \in DOMAIN h.variants : h.variants[k].fingerprint.some

\* a path without its "." components
WithoutCurDir(path) == SelectSeq(path, LAMBDA c : c # ".")

\* the variant a managed (tool, path) pair names
IsManaged(v, pair) ==
    /\ v.tool = to_ascii_lowercase(pair[1])
    /\ WithoutCurDir(v.path) = WithoutCurDir(pair[2])

\* the plan of the same scan with no managed pair excluded
PlanWithoutPair ==
    build_onboarding_plan_in_home(fn.home, fn.exclude_root, Some({}),
                                  fn.exclude_managed_names)

\* C23: the plan of a scan that excludes a managed (tool, path) pair has
\* the variants of the plan of the scan without it, but for the one with
\* that tool and that path; when that one was alone in its group the group
\* is not in the plan, and total_skills_found is one less.
C23_ExcludesExactlyManagedVariant ==
    (PlanBuilt /\ fn.pair # << >>)
        => /\ AllVariants(fn.ret)
                 = {v \in AllVariants(PlanWithoutPair) :
                       ~IsManaged(v, fn.pair)}
           /\ \A g \in fn.ret.groups : g.variants # << >>
           /\ \A g \in PlanWithoutPair.groups :
                 (Len(g.variants) = 1 /\ IsManaged(g.variants[1], fn.pair))
                    => /\ \A h \in fn.ret.groups : h.name # g.name
                       /\ fn.ret.total_skills_found
                             = PlanWithoutPair.total_skills_found - 1

\* the only variant of a group was excluded by a pair whose path the
\* registry has with a "." in it, and the other group is still in the plan
C23_Witness ==
    /\ PlanBuilt
    /\ fn.pair = <<"claude", SkillsDir("claude") \o <<".", "a">>>>
    /\ \E g \in PlanWithoutPair.groups :
          /\ g.name = "a"
          /\ Len(g.variants) = 1
          /\ IsManaged(g.variants[1], fn.pair)
    /\ \A h \in fn.ret.groups : h.name # "a"
    /\ fn.ret.total_skills_found = 1
    /\ PlanWithoutPair.total_skills_found = 2

\* C24: total_tools_scanned is the number of adapters whose detection
\* directory exists under the home directory, and total_skills_found is the
\* number of variants in the groups of the plan.
C24_TotalsMatch ==
    PlanBuilt
        => /\ fn.ret.total_tools_scanned
                 = Cardinality({t \in Tools : fn.home.detect[t]})
           /\ fn.ret.total_skills_found = Cardinality(AllVariants(fn.ret))

\* one tool of the two is installed and holds one skill
C24_Witness ==
    /\ PlanBuilt
    /\ Cardinality({t \in Tools : fn.home.detect[t]}) = 1
    /\ \E t \in Tools, n \in Names : fn.home.dirs[t][n] # NoEntry
                                        /\ ~fn.home.detect[t]
    /\ fn.ret.total_tools_scanned = 1
    /\ fn.ret.total_skills_found = 1

\* path p has the components of root r as its first components
LiesUnder(p, r) ==
    LET a == WithoutCurDir(p)
        b == WithoutCurDir(r)
    IN  Len(b) <= Len(a) /\ \A k \in 1..Len(b) : a[k] = b[k]

\* the instances the scan finds in the home directory, before any filter
Found(home) ==
    {<<t, n>> \in Tools \X Names :
        home.detect[t] /\ home.dirs[t][n] # NoEntry}

\* C33: no variant of a plan built with an exclusion root has its path, or
\* its link target, under that root.
C33_NothingUnderExcludedRoot ==
    (PlanBuilt /\ fn.exclude_root.some)
        => \A v \in AllVariants(fn.ret) :
              /\ ~LiesUnder(v.path, fn.exclude_root.val)
              /\ v.link_target.some
                    => ~LiesUnder(v.link_target.val, fn.exclude_root.val)

\* the scan found a link into the canonical root and a directory of the
\* same tool, and the plan has the directory only
C33_Witness ==
    /\ PlanBuilt
    /\ fn.exclude_root = Some(CentralRoot)
    /\ fn.home.detect["cursor"]
    /\ fn.home.dirs["cursor"]["a"] = LinkEntry
    /\ fn.home.dirs["cursor"]["b"] = DirEntry(1)
    /\ \E v \in AllVariants(fn.ret) : v.tool = "cursor" /\ v.name = "b"
    /\ \A v \in AllVariants(fn.ret) : ~v.is_link

\* the instance of tool t and name n that the scan found survives the
\* filters of the call: it is not under the exclusion root, it is not the
\* managed pair, and its name is not a managed name
Survives(t, n) ==
    LET d == DetectedSkill(t, n, fn.home.dirs[t][n])
    IN  /\ fn.exclude_root.some
              => /\ ~LiesUnder(d.path, fn.exclude_root.val)
                 /\ d.link_target.some
                       => ~LiesUnder(d.link_target.val, fn.exclude_root.val)
        /\ fn.pair # << >> => ~IsManaged(d, fn.pair)
        /\ fn.exclude_managed_names.some
              => n \notin fn.exclude_managed_names.val

\* the places of the plan that hold the instance of tool t and name n
PlacesOf(plan, t, n) ==
    {<<g, k>> \in UNION {{<<h, x>> : x \in DOMAIN h.variants} :
                            h \in plan.groups} :
        g.variants[k].tool = t /\ g.variants[k].name = n}

\* C34: no group of a plan has the name of a managed skill; every group
\* has a variant, and its variants have its name; and an instance the scan
\* found is in the plan once, in one group, when it survives the filters,
\* and is not in it when it does not.
C34_GroupedByName ==
    PlanBuilt
        => /\ fn.exclude_managed_names.some
                 => \A g \in fn.ret.groups :
                       g.name \notin fn.exclude_managed_names.val
           /\ \A g \in fn.ret.groups :
                 /\ g.variants # << >>
                 /\ \A k \in DOMAIN g.variants : g.variants[k].name = g.name
           /\ \A t \in Tools, n \in Names :
                 Cardinality(PlacesOf(fn.ret, t, n))
                    = IF <<t, n>> \in Found(fn.home) /\ Survives(t, n)
                      THEN 1 ELSE 0

\* both tools hold the managed name and another name: the plan has one
\* group, of the other name, with the instances of both tools
C34_Witness ==
    /\ PlanBuilt
    /\ fn.exclude_managed_names = Some({"a"})
    /\ Found(fn.home) = Tools \X Names
    /\ Cardinality(fn.ret.groups) = 1
    /\ \A g \in fn.ret.groups : g.name = "b" /\ Len(g.variants) = 2

----------------------------------------------------------------------------
(* Properties of the store with a record of another source_type
   (SpecRegistered) *)

\* C31: an update of a record whose source_type is neither git nor local,
\* and whose canonical directory exists, returns an error at once, and the
\* canonical root, the skills table, the target rows and directories and the
\* git cache are as they were, with no staging directory.
C31_UnsupportedSourceAborts ==
    [][\A i \in Ids :
          (/\ UpdateCalled(i)
           /\ skills[i] # NoRecord
           /\ central[skills[i].central_path] # NoDir
           /\ skills[i].source_type \notin {"git", "local"})
              => /\ op'.pc = "done"
                 /\ op'.res = "err"
                 /\ op'.staging = NoDir
                 /\ UNCHANGED <<skills, central, cache, acq, targets,
                                tdirs>>]_vars

\* an update of the record of another source_type, which has a target, has
\* returned the error
C31_Witness ==
    /\ op.kind = "update"
    /\ op.pc = "done"
    /\ op.res = "err"
    /\ skills[op.id] # NoRecord
    /\ skills[op.id].source_type = OtherSourceType
    /\ Complete(central[op.name])
    /\ op.staging = NoDir
    /\ \E t \in Tools : get_skill_target(targets, op.id, t) # NoTarget

----------------------------------------------------------------------------
(* Two installs at once: install_local_skill called by two threads, each
   step of a call a step of its own.  fn holds the two calls. *)

InstallIdle ==
    [pc |-> "idle", name |-> "a", src |-> NoDir, copied |-> 0,
     res |-> "none"]

Installing == fn.name = "install_local_skill"

\* the calls so far
InstallCalls == IF Installing THEN fn.calls ELSE [p \in Procs |-> InstallIdle]

SetInstallCall(p, c) ==
    fn' = [name |-> "install_local_skill",
           calls |-> [InstallCalls EXCEPT ![p] = c]]

\* installer.rs 82-90: the call, and the check of the source
InstallCall(p) ==
    /\ fn = NoCall \/ Installing
    /\ InstallCalls[p].pc = "idle"
    /\ \E n \in Names, src \in Sources :
         IF SourceMissing(src)
         THEN SetInstallCall(p, [InstallIdle EXCEPT !.pc = "done",
                                    !.name = n, !.res = "err"])
         ELSE SetInstallCall(p, [InstallIdle EXCEPT !.pc = "exists",
                                    !.name = n, !.src = src])
    /\ UNCHANGED pureFrame

\* installer.rs 99-105: if central_path.exists() { bail!(..) }
InstallCheckDest(p) ==
    /\ Installing
    /\ fn.calls[p].pc = "exists"
    /\ IF DestExists(fn.calls[p].name)
       THEN SetInstallCall(p, [fn.calls[p] EXCEPT !.pc = "done",
                                                  !.res = "err"])
       ELSE SetInstallCall(p, [fn.calls[p] EXCEPT !.pc = "mkdir"])
    /\ UNCHANGED pureFrame

\* installer.rs 107-108: copy_dir_recursive(source_path, &central_path)?,
\* its first step: the destination directory is created, or is there
InstallMkdir(p) ==
    /\ Installing
    /\ fn.calls[p].pc = "mkdir"
    /\ LET n == fn.calls[p].name
       IN  \/ /\ central' = [central EXCEPT ![n] =
                                 IF @ = NoDir THEN StartFallbackCopy(@)
                                 ELSE @]
              /\ SetInstallCall(p, [fn.calls[p] EXCEPT !.pc = "files"])
           \/ /\ UNCHANGED central
              /\ SetInstallCall(p, [fn.calls[p] EXCEPT !.pc = "done",
                                                       !.res = "err"])
    /\ UNCHANGED <<now, cacheVars, skills, tgtVars, op, nops>>

\* copy_dir_recursive, file by file: a file that is there is overwritten
InstallCopyFile(p) ==
    /\ Installing
    /\ fn.calls[p].pc = "files"
    /\ LET c == fn.calls[p]
       IN  \/ /\ c.copied < NFiles
              /\ central' = [central EXCEPT ![c.name] =
                                 FallbackCopyFile(@, c.src, c.copied + 1)]
              /\ SetInstallCall(p, [c EXCEPT !.copied = @ + 1])
           \/ /\ c.copied < NFiles
              /\ UNCHANGED central
              /\ SetInstallCall(p, [c EXCEPT !.pc = "done", !.res = "err"])
           \/ /\ c.copied = NFiles
              /\ UNCHANGED central
              /\ SetInstallCall(p, [c EXCEPT !.pc = "upsert"])
    /\ UNCHANGED <<now, cacheVars, skills, tgtVars, op, nops>>

\* installer.rs 110-141: the record, under a fresh id, and the return
InstallUpsert(p) ==
    /\ Installing
    /\ fn.calls[p].pc = "upsert"
    /\ LET c == fn.calls[p]
       IN  \E i \in Ids, dbOk \in BOOLEAN :
             /\ IsFreshId(i)
             /\ LET rec == SkillRecord(i, c.name, "local", LocalRef, NoRev,
                               compute_content_hash(central[c.name]),
                               now, now)
                IN  IF dbOk /\ UpsertSkillAllowed(skills, rec)
                    THEN /\ skills' = UpsertSkill(skills, rec)
                         /\ SetInstallCall(p, [c EXCEPT !.pc = "done",
                                                        !.res = "ok"])
                    ELSE /\ UNCHANGED skills
                         /\ SetInstallCall(p, [c EXCEPT !.pc = "done",
                                                        !.res = "err"])
    /\ UNCHANGED <<now, cacheVars, central, tgtVars, op, nops>>

NextInstalls ==
    \E p \in Procs :
        \/ InstallCall(p)
        \/ InstallCheckDest(p)
        \/ InstallMkdir(p)
        \/ InstallCopyFile(p)
        \/ InstallUpsert(p)

SpecInstalls == Init /\ [][NextInstalls]_vars

----------------------------------------------------------------------------
(* Properties of two installs at once (SpecInstalls) *)

\* both calls have returned, and each had copied all of its source to the
\* same destination
BothCopiedTo(n) ==
    /\ Installing
    /\ \A p \in Procs :
          /\ fn.calls[p].pc = "done"
          /\ fn.calls[p].name = n
          /\ fn.calls[p].copied = NFiles

\* C35: when two installs at once to the same destination have returned,
\* one of them at most has returned success, and, no copy having failed,
\* the canonical directory is a complete copy of one of the two sources.
C35_OneInstallWins ==
    /\ Installing
          => \A p, q \in Procs :
                (/\ p # q
                 /\ fn.calls[p].name = fn.calls[q].name
                 /\ fn.calls[p].res = "ok")
                    => fn.calls[q].res # "ok"
    /\ \A n \in Names :
          BothCopiedTo(n)
             => \E p \in Procs : central[n] = fn.calls[p].src

----------------------------------------------------------------------------
(* Acquires of one key while the TTL setting changes *)

\* History: the revision the last successful clone_or_pull of RepoKey
\* resolved to
LastFetched(r) == [name |-> "clone_or_pull", head |-> r]

\* installer.rs 919-932, with the history of the revision it resolved
FetchRecorded(p) ==
    /\ Fetch(p)
    /\ fn' = IF acq'[p].pc = "meta" THEN LastFetched(acq'[p].rev) ELSE fn
    /\ UNCHANGED <<central, skills, targets, tdirs, op, nops>>

\* the set_git_cache_ttl_secs command: the setting that
\* get_git_cache_ttl_secs(store) reads at every call (installer.rs 899)
SetTtl ==
    /\ \E secs \in TtlChoices \ {ttl_secs} : ttl_secs' = secs
    /\ UNCHANGED <<now, cache, git_cache_lock, acq, markerBy>>

NextHits ==
    \/ \E p \in Procs : CallAcquire(p) /\ UNCHANGED storeVars
    \/ \E p \in Procs : AcquireLock(p) /\ UNCHANGED storeVars
    \/ \E p \in Procs : CheckFresh(p) /\ UNCHANGED storeVars
    \/ \E p \in Procs : FetchRecorded(p)
    \/ \E p \in Procs : Reset(p) /\ UNCHANGED storeVars
    \/ \E p \in Procs : WriteMeta(p) /\ UNCHANGED storeVars
    \/ \E p \in Procs : CopyOutDone(p) /\ UNCHANGED storeVars
    \/ \E p \in Procs : ErrReturned(p) /\ UNCHANGED storeVars
    \/ Tick /\ UNCHANGED storeVars
    \/ SetTtl /\ UNCHANGED storeVars

SpecHits == Init /\ [][NextHits]_vars

----------------------------------------------------------------------------
(* Properties of the cache hit (SpecHits) *)

\* C38: an acquire served from the cache calls no fetch, leaves the cache
\* directory and its marker as they were, and returns the revision that the
\* last successful fetch of its key resolved to.
C38_HitReturnsLastFetched ==
    [][\A p \in Procs :
          (CheckStep(p) /\ acq'[p].pc = "copy")
              => /\ acq'[p].fetches = 0
                 /\ cache' = cache
                 /\ fn.name = "clone_or_pull"
                 /\ acq'[p].rev = fn.head]_vars

\* C38, the part that holds: the hit calls no fetch, changes nothing in the
\* cache and returns the head that the marker records
C38_HitReturnsMarkerHead ==
    [][\A p \in Procs :
          (CheckStep(p) /\ acq'[p].pc = "copy")
              => /\ acq'[p].fetches = 0
                 /\ cache' = cache
                 /\ acq'[p].rev = cache[acq[p].key].meta.head]_vars

====
